---- MODULE Spec2Model ----
(***************************************************************************)
(* Trend analyzer of koeika/daily_stock_analysis: src/src/stock_analyzer.py *)
(* (StockTrendAnalyzer and TrendAnalysisResult).                           *)
(*                                                                         *)
(* Numbers.  The Python code computes in binary floating point.  The model *)
(* computes the same formulas in exact rational arithmetic: Frac is a      *)
(* reduced fraction of small integers, Rat is a fraction whose numerator   *)
(* is an arbitrary-precision integer (the EMA recursions of MACD and KDJ   *)
(* outgrow the 32-bit integers of the model checker after three bars).     *)
(***************************************************************************)
EXTENDS Integers, Sequences, FiniteSets, TLC

(***************************************************************************)
(* Arbitrary-precision integers: [s |-> sign, m |-> magnitude], the        *)
(* magnitude a little-endian sequence of base-10000 limbs without leading  *)
(* zero limbs (<<>> is zero).                                              *)
(***************************************************************************)
RECURSIVE MagStrip(_)
MagStrip(a) ==
    IF a = <<>> THEN <<>>
    ELSE IF a[Len(a)] = 0 THEN MagStrip(SubSeq(a, 1, Len(a) - 1))
    ELSE a

RECURSIVE MagAddC(_, _, _)
MagAddC(a, b, c) ==
    IF a = <<>> /\ b = <<>> THEN (IF c = 0 THEN <<>> ELSE <<c>>)
    ELSE LET x == IF a = <<>> THEN 0 ELSE Head(a)
             y == IF b = <<>> THEN 0 ELSE Head(b)
             s == x + y + c
         IN  <<s % 10000>> \o MagAddC(IF a = <<>> THEN <<>> ELSE Tail(a),
                                      IF b = <<>> THEN <<>> ELSE Tail(b),
                                      s \div 10000)

RECURSIVE MagSubB(_, _, _)
MagSubB(a, b, c) ==
    IF a = <<>> THEN <<>>
    ELSE LET y == IF b = <<>> THEN 0 ELSE Head(b)
             s == Head(a) - y - c
         IN  <<s % 10000>> \o MagSubB(Tail(a),
                                      IF b = <<>> THEN <<>> ELSE Tail(b),
                                      IF s < 0 THEN 1 ELSE 0)

RECURSIVE MagCmpAt(_, _, _)
MagCmpAt(a, b, i) ==
    IF i = 0 THEN 0
    ELSE IF a[i] > b[i] THEN 1
    ELSE IF a[i] < b[i] THEN -1
    ELSE MagCmpAt(a, b, i - 1)

MagCmp(a, b) ==
    IF Len(a) > Len(b) THEN 1
    ELSE IF Len(a) < Len(b) THEN -1
    ELSE MagCmpAt(a, b, Len(a))

RECURSIVE MagScaleC(_, _, _)
MagScaleC(a, k, c) ==
    IF a = <<>> THEN (IF c = 0 THEN <<>>
                      ELSE <<c % 10000>> \o MagScaleC(<<>>, k, c \div 10000))
    ELSE LET s == Head(a) * k + c
         IN  <<s % 10000>> \o MagScaleC(Tail(a), k, s \div 10000)

\* 10000^n modulo k
RECURSIVE PowMod(_, _)
PowMod(k, n) ==
    IF n = 0 THEN 1 % k
    ELSE IF n = 1 THEN 10000 % k
    ELSE (PowMod(k, n \div 2) * PowMod(k, n - n \div 2)) % k

\* The number with the limbs lo..hi of a (lo the least significant), modulo
\* a small positive integer k; 0 for an empty range.
RECURSIVE ModRange(_, _, _, _)
ModRange(a, k, lo, hi) ==
    IF lo > hi THEN 0
    ELSE IF lo = hi THEN a[lo] % k
    ELSE LET mid == (lo + hi) \div 2
         IN  (ModRange(a, k, lo, mid)
                  + ModRange(a, k, mid + 1, hi) * PowMod(k, mid - lo + 1)) % k

MagMod(a, k) == ModRange(a, k, 1, Len(a))

\* Division by a small positive integer: limb i of the quotient is the
\* remainder of the higher limbs, followed by limb i, divided by k.
MagDiv(a, k) ==
    IF a = <<>> THEN <<>>
    ELSE MagStrip(<<>> \o [i \in 1..Len(a) |->
                      (ModRange(a, k, i + 1, Len(a)) * 10000 + a[i]) \div k])

BigZero == [s |-> 0, m |-> <<>>]

BigFromInt(i) ==
    LET a == IF i < 0 THEN -i ELSE i
    IN  IF i = 0 THEN BigZero
        ELSE [s |-> IF i < 0 THEN -1 ELSE 1,
              m |-> MagStrip(<<a % 10000, (a \div 10000) % 10000, a \div 100000000>>)]

BigNeg(x) == [s |-> -x.s, m |-> x.m]

BigAdd(x, y) ==
    IF x.s = 0 THEN y
    ELSE IF y.s = 0 THEN x
    ELSE IF x.s = y.s THEN [s |-> x.s, m |-> MagAddC(x.m, y.m, 0)]
    ELSE LET c == MagCmp(x.m, y.m)
         IN  IF c = 0 THEN BigZero
             ELSE IF c > 0 THEN [s |-> x.s, m |-> MagStrip(MagSubB(x.m, y.m, 0))]
             ELSE [s |-> y.s, m |-> MagStrip(MagSubB(y.m, x.m, 0))]

BigSub(x, y) == BigAdd(x, BigNeg(y))

\* Product with a small integer (|k| < 200000).
BigScale(x, k) ==
    IF k = 0 \/ x.s = 0 THEN BigZero
    ELSE [s |-> IF k < 0 THEN -x.s ELSE x.s,
          m |-> MagScaleC(x.m, IF k < 0 THEN -k ELSE k, 0)]

BigDivisible(x, k) == MagMod(x.m, k) = 0

BigDivExact(x, k) == IF x.s = 0 THEN BigZero ELSE [s |-> x.s, m |-> MagDiv(x.m, k)]

(***************************************************************************)
(* Rat: an exact rational [n |-> numerator, e |-> exponents], denoting     *)
(* n divided by the product of Primes[i]^e[i], kept in lowest terms.       *)
(* Every divisor the indicator formulas use (EMA spans 13 = 12+1,          *)
(* 27 = 26+1, 10 = 9+1, the KDJ smoothing 3, the 9-bar high/low ranges of  *)
(* the modelled bars, the 20*19 of the sample variance) factors over       *)
(* these primes.                                                           *)
(***************************************************************************)
Primes == <<2, 3, 5, 7, 11, 13, 17, 19, 23>>

\* Exponent vectors are explicit tuples (one entry per prime).
Vec(F(_)) == <<F(1), F(2), F(3), F(4), F(5), F(6), F(7), F(8), F(9)>>

NoExp == <<0, 0, 0, 0, 0, 0, 0, 0, 0>>

RECURSIVE ExpOf(_, _)
ExpOf(k, p) == IF k % p = 0 THEN 1 + ExpOf(k \div p, p) ELSE 0

RECURSIVE IntPow(_, _)
IntPow(p, k) == IF k = 0 THEN 1 ELSE p * IntPow(p, k - 1)

RECURSIVE VecProd(_, _)
VecProd(v, j) == IF j = 0 THEN 1 ELSE IntPow(Primes[j], v[j]) * VecProd(v, j - 1)

\* The exponent vector of a positive divisor; a divisor with another prime
\* factor has none (the CHOOSE then has no value and the evaluation stops).
Factor(k) ==
    LET v == Vec(LAMBDA i : ExpOf(k, Primes[i]))
    IN  IF VecProd(v, Len(Primes)) = k THEN v ELSE CHOOSE w \in {} : TRUE

\* The largest power of each prime below 200000, as its exponent.
Chunk == <<17, 11, 7, 6, 5, 4, 4, 4, 3>>

\* x * Primes[i]^k, by the largest power below 200000 at a time
RECURSIVE ScalePow(_, _, _)
ScalePow(x, i, k) ==
    LET j == IF k >= Chunk[i] THEN Chunk[i] ELSE k
    IN  IF k = 0 THEN x ELSE BigScale(ScalePow(x, i, k - j), IntPow(Primes[i], j))

RECURSIVE ScaleVec(_, _, _)
ScaleVec(x, v, j) ==
    IF j = 0 THEN x ELSE ScalePow(ScaleVec(x, v, j - 1), j, v[j])

RECURSIVE RatCancel(_, _)
RatCancel(x, i) ==
    IF x.n.s = 0 THEN [n |-> BigZero, e |-> NoExp]
    ELSE IF i = 0 \/ x.e = NoExp THEN x
    ELSE IF x.e[i] > 0 /\ BigDivisible(x.n, Primes[i])
         THEN RatCancel([n |-> BigDivExact(x.n, Primes[i]),
                         e |-> [x.e EXCEPT ![i] = @ - 1]], i)
         ELSE RatCancel(x, i - 1)

RatNorm(x) == RatCancel(x, Len(Primes))

RatInt(i) == [n |-> BigFromInt(i), e |-> NoExp]

MaxOf(a, b) == IF a >= b THEN a ELSE b

MinOf(a, b) == IF a <= b THEN a ELSE b

RatAdd(x, y) ==
    IF x.e = y.e THEN RatNorm([n |-> BigAdd(x.n, y.n), e |-> x.e]) ELSE
    LET m == Vec(LAMBDA i : MaxOf(x.e[i], y.e[i]))
        xs == ScaleVec(x.n, Vec(LAMBDA i : m[i] - x.e[i]), Len(Primes))
        ys == ScaleVec(y.n, Vec(LAMBDA i : m[i] - y.e[i]), Len(Primes))
    IN  RatNorm([n |-> BigAdd(xs, ys), e |-> m])

RatNeg(x) == [n |-> BigNeg(x.n), e |-> x.e]

RatSub(x, y) == RatAdd(x, RatNeg(y))

RatScale(x, k) == RatNorm([n |-> BigScale(x.n, k), e |-> x.e])

RatDiv(x, k) ==
    LET f == Factor(k)
    IN  RatNorm([n |-> x.n, e |-> Vec(LAMBDA i : x.e[i] + f[i])])

\* (a * x + c * y) / b for integers a, c and b > 0, normalised once
RatLin(a, x, c, y, b) ==
    LET m == Vec(LAMBDA i : MaxOf(x.e[i], y.e[i]))
        xs == ScaleVec(x.n, Vec(LAMBDA i : m[i] - x.e[i]), Len(Primes))
        ys == ScaleVec(y.n, Vec(LAMBDA i : m[i] - y.e[i]), Len(Primes))
        f == Factor(b)
    IN  RatNorm([n |-> BigAdd(BigScale(xs, a), BigScale(ys, c)),
                 e |-> Vec(LAMBDA i : m[i] + f[i])])

RatSign(x) == x.n.s

RatCmp(x, y) == RatSign(RatSub(x, y))

RatGt(x, y) == RatCmp(x, y) > 0

RatLt(x, y) == RatCmp(x, y) < 0

(***************************************************************************)
(* Frac: a reduced fraction [n, d] of small integers, d > 0.               *)
(***************************************************************************)
Abs(i) == IF i < 0 THEN -i ELSE i

RECURSIVE Gcd(_, _)
Gcd(a, b) == IF b = 0 THEN a ELSE Gcd(b, a % b)

Frac(n, d) ==
    LET g == Gcd(Abs(n), d)
    IN  [n |-> (IF n < 0 THEN -(Abs(n) \div g) ELSE n \div g), d |-> d \div g]

FracInt(i) == [n |-> i, d |-> 1]

FracLt(x, y) == x.n * y.d < y.n * x.d

FracLe(x, y) == x.n * y.d <= y.n * x.d

FracGt(x, y) == FracLt(y, x)

FracGe(x, y) == FracLe(y, x)

FracAdd(x, y) == Frac(x.n * y.d + y.n * x.d, x.d * y.d)

FracSub(x, y) == Frac(x.n * y.d - y.n * x.d, x.d * y.d)

\* Products cancel crosswise before they multiply (the factors stay small).
FracMul(x, y) ==
    LET g == Gcd(Abs(x.n), y.d)
        h == Gcd(Abs(y.n), x.d)
    IN  Frac((x.n \div g) * (y.n \div h), (x.d \div h) * (y.d \div g))

\* x / y for y # 0
FracDiv(x, y) ==
    FracMul(x, IF y.n < 0 THEN [n |-> -y.d, d |-> -y.n] ELSE [n |-> y.d, d |-> y.n])

FracAbs(x) == [n |-> Abs(x.n), d |-> x.d]

FracSign(x) == IF x.n > 0 THEN 1 ELSE IF x.n < 0 THEN -1 ELSE 0

\* Product of an arbitrary-precision integer with a non-negative integer of
\* any size the model checker holds.
BigMul(x, k) ==
    LET lo == BigScale(x, k % 10000)
        hi == BigScale(x, k \div 10000)
    IN  BigAdd(lo, IF hi.s = 0 THEN BigZero ELSE [s |-> hi.s, m |-> <<0>> \o hi.m])

BigCmp(x, y) == BigSub(x, y).s

(***************************************************************************)
(* Surd: the number a + sgn * sqrt(q) with a and q >= 0 fractions and sgn  *)
(* in {-1, 0, 1} (0 exactly when q = 0).  The Bollinger bands are          *)
(* mid +/- 2 * std, and std is the square root of a rational variance.     *)
(***************************************************************************)
Surd(a, sgn, q) == [a |-> a, sgn |-> IF q.n = 0 THEN 0 ELSE sgn, q |-> q]

SurdOfFrac(a) == Surd(a, 0, FracInt(0))

\* The sign of A + sgn * f * sqrt(q) for fractions A, f > 0 and q >= 0: by
\* squaring when A and the root disagree in sign.
SignPlusRoot(A, sgn, f, q) ==
    IF sgn = 0 \/ q.n = 0 THEN FracSign(A)
    ELSE IF A.n = 0 THEN sgn
    ELSE IF FracSign(A) = sgn THEN sgn
    ELSE \* A^2 against f^2 * q, cross-multiplied
         LET l == BigMul(BigMul(BigMul(BigMul(BigFromInt(Abs(A.n)), Abs(A.n)),
                                       q.d), f.d), f.d)
             r == BigMul(BigMul(BigMul(BigMul(BigFromInt(q.n), A.d), A.d),
                                f.n), f.n)
             c == BigCmp(l, r)
         IN  IF c = 0 THEN 0 ELSE IF c > 0 THEN FracSign(A) ELSE sgn

\* The sign of p - f * s for fractions p and f > 0 and a surd s.
SurdCmpScaled(p, f, s) == SignPlusRoot(FracSub(p, FracMul(f, s.a)), -s.sgn, f, s.q)

(***************************************************************************)
(* StockTrendAnalyzer: class constants.                                    *)
(***************************************************************************)
BIAS_THRESHOLD == 5

VOLUME_SHRINK_RATIO == Frac(7, 10)

VOLUME_HEAVY_RATIO == Frac(3, 2)

MA_SUPPORT_TOLERANCE == Frac(2, 100)

MACD_FAST == 12

MACD_SLOW == 26

MACD_SIGNAL == 9

RSI_SHORT == 6

RSI_MID == 12

RSI_LONG == 24

RSI_OVERBOUGHT == 70

RSI_OVERSOLD == 30

KDJ_N == 9

KDJ_M1 == 3

KDJ_M2 == 3

BOLL_PERIOD == 20

BOLL_STD == 2

\* trend, bias, volume, support, macd, rsi, kdj, boll
DEFAULT_WEIGHTS == <<28, 18, 12, 8, 12, 7, 8, 7>>

(***************************************************************************)
(* The enumerations.  A member is modelled by its Python name; its .value  *)
(* (the display string, Chinese in the source) by a pinyin transliteration.*)
(***************************************************************************)
TrendStatus ==
    [STRONG_BULL |-> "qiangshi duotou", BULL |-> "duotou pailie",
     WEAK_BULL |-> "ruoshi duotou", CONSOLIDATION |-> "panzheng",
     WEAK_BEAR |-> "ruoshi kongtou", BEAR |-> "kongtou pailie",
     STRONG_BEAR |-> "qiangshi kongtou"]

VolumeStatus ==
    [HEAVY_VOLUME_UP |-> "fangliang shangzhang", HEAVY_VOLUME_DOWN |-> "fangliang xiadie",
     SHRINK_VOLUME_UP |-> "suoliang shangzhang", SHRINK_VOLUME_DOWN |-> "suoliang huitiao",
     NORMAL |-> "liangneng zhengchang"]

BuySignal ==
    [STRONG_BUY |-> "qianglie mairu", BUY |-> "mairu", HOLD |-> "chiyou",
     WAIT |-> "guanwang", SELL |-> "maichu", STRONG_SELL |-> "qianglie maichu"]

MACDStatus ==
    [GOLDEN_CROSS_ZERO |-> "lingzhou shang jincha", GOLDEN_CROSS |-> "jincha",
     BULLISH |-> "duotou", CROSSING_UP |-> "shangchuan lingzhou",
     CROSSING_DOWN |-> "xiachuan lingzhou", BEARISH |-> "kongtou",
     DEATH_CROSS |-> "sicha"]

RSIStatus ==
    [OVERBOUGHT |-> "chaomai3", STRONG_BUY |-> "qiangshi mairu", NEUTRAL |-> "zhongxing",
     WEAK |-> "ruoshi", OVERSOLD |-> "chaomai4"]

KDJStatus ==
    [GOLDEN_CROSS |-> "jincha", DEATH_CROSS |-> "sicha", OVERBOUGHT |-> "chaomai3",
     OVERSOLD |-> "chaomai4", BULLISH |-> "duotou", BEARISH |-> "kongtou",
     NEUTRAL |-> "zhongxing"]

BOLLStatus ==
    [UPPER_BREAK |-> "tupo shanggui", LOWER_BREAK |-> "diepo xiagui",
     UPPER_NEAR |-> "jiejin shanggui", LOWER_NEAR |-> "jiejin xiagui",
     MID_SUPPORT |-> "zhonggui zhicheng", MID_RESISTANCE |-> "zhonggui yali",
     NORMAL |-> "tongdao nei"]

(***************************************************************************)
(* TrendAnalysisResult.  Averages, biases, ratios and RSI values are Frac, *)
(* the MACD and KDJ values are Rat, the Bollinger bands and the band       *)
(* position are Surd, OBV and the score are integers.  The two message     *)
(* lists hold entries [by, text]: `by' is the number (1..8) of the scoring *)
(* section of _generate_signal that appended the entry (0 for analyze      *)
(* itself), `text' the message, a pair <<mark, body>>.  Messages are       *)
(* ASCII glosses of the source's strings, without the numbers the source   *)
(* formats into some of them.                                              *)
(***************************************************************************)
Zero == FracInt(0)

TrendAnalysisResult(code) ==
    [code |-> code,
     trend_status |-> "CONSOLIDATION", ma_alignment |-> "", trend_strength |-> 0,
     ma5 |-> Zero, ma10 |-> Zero, ma20 |-> Zero, ma60 |-> Zero, current_price |-> Zero,
     bias_ma5 |-> Zero, bias_ma10 |-> Zero, bias_ma20 |-> Zero,
     volume_status |-> "NORMAL", volume_ratio_5d |-> Zero, volume_trend |-> "",
     support_ma5 |-> FALSE, support_ma10 |-> FALSE,
     resistance_levels |-> <<>>, support_levels |-> <<>>,
     macd_dif |-> RatInt(0), macd_dea |-> RatInt(0), macd_bar |-> RatInt(0),
     macd_status |-> "BULLISH", macd_signal |-> "",
     rsi_6 |-> Zero, rsi_12 |-> Zero, rsi_24 |-> Zero,
     rsi_status |-> "NEUTRAL", rsi_signal |-> "",
     kdj_k |-> RatInt(0), kdj_d |-> RatInt(0), kdj_j |-> RatInt(0),
     kdj_status |-> "NEUTRAL", kdj_signal |-> "",
     boll_upper |-> SurdOfFrac(Zero), boll_mid |-> Zero, boll_lower |-> SurdOfFrac(Zero),
     boll_position |-> SurdOfFrac(Zero), boll_status |-> "NORMAL", boll_signal |-> "",
     obv |-> 0, obv_trend |-> "",
     buy_signal |-> "WAIT", signal_score |-> 0,
     signal_reasons |-> <<>>, risk_factors |-> <<>>]

to_dict(self) ==
    [code |-> self.code,
     trend_status |-> TrendStatus[self.trend_status],
     ma_alignment |-> self.ma_alignment,
     trend_strength |-> self.trend_strength,
     ma5 |-> self.ma5, ma10 |-> self.ma10, ma20 |-> self.ma20, ma60 |-> self.ma60,
     current_price |-> self.current_price,
     bias_ma5 |-> self.bias_ma5, bias_ma10 |-> self.bias_ma10, bias_ma20 |-> self.bias_ma20,
     volume_status |-> VolumeStatus[self.volume_status],
     volume_ratio_5d |-> self.volume_ratio_5d,
     volume_trend |-> self.volume_trend,
     support_ma5 |-> self.support_ma5, support_ma10 |-> self.support_ma10,
     buy_signal |-> BuySignal[self.buy_signal],
     signal_score |-> self.signal_score,
     signal_reasons |-> self.signal_reasons,
     risk_factors |-> self.risk_factors,
     macd_dif |-> self.macd_dif, macd_dea |-> self.macd_dea, macd_bar |-> self.macd_bar,
     macd_status |-> MACDStatus[self.macd_status],
     macd_signal |-> self.macd_signal,
     rsi_6 |-> self.rsi_6, rsi_12 |-> self.rsi_12, rsi_24 |-> self.rsi_24,
     rsi_status |-> RSIStatus[self.rsi_status],
     rsi_signal |-> self.rsi_signal,
     kdj_k |-> self.kdj_k, kdj_d |-> self.kdj_d, kdj_j |-> self.kdj_j,
     kdj_status |-> KDJStatus[self.kdj_status],
     kdj_signal |-> self.kdj_signal,
     boll_upper |-> self.boll_upper, boll_mid |-> self.boll_mid,
     boll_lower |-> self.boll_lower, boll_position |-> self.boll_position,
     boll_status |-> BOLLStatus[self.boll_status],
     boll_signal |-> self.boll_signal,
     obv |-> self.obv, obv_trend |-> self.obv_trend]

(***************************************************************************)
(* Data frames.  The rows of a frame are a sequence of records [date,      *)
(* open, high, low, close, volume] with integer entries; a frame object is *)
(* DataFrame(rows) and a list object is List(items), both distinct from    *)
(* None.  The calculators and classifiers take the rows.  The indicator    *)
(* columns the calculators add are operators of the row number (1-based;   *)
(* iloc[-1] is row Len(df)), NaN the pandas not-a-number.                  *)
(***************************************************************************)
None == [none |-> TRUE]

DataFrame(rows) == [rows |-> rows]

List(items) == [items |-> items]

NaN == [nan |-> TRUE]

Row(t, o, h, l, c, v) ==
    [date |-> t, open |-> o, high |-> h, low |-> l, close |-> c, volume |-> v]

\* df.sort_values('date').reset_index(drop=True), for frames with distinct dates.
\* rank[i] is the number of rows dated before row i.
sort_values(df) ==
    LET n == Len(df)
        rank == <<>> \o [i \in 1..n |-> Cardinality({j \in 1..n : df[j].date < df[i].date})]
    IN  <<>> \o [k \in 1..n |-> df[CHOOSE i \in 1..n : rank[i] = k - 1]]

RECURSIVE SumRange(_, _, _)
SumRange(col, lo, hi) ==
    IF lo > hi THEN 0
    ELSE IF lo = hi THEN col[lo]
    ELSE LET mid == (lo + hi) \div 2
         IN  SumRange(col, lo, mid) + SumRange(col, mid + 1, hi)

Close(df) == <<>> \o [i \in 1..Len(df) |-> df[i].close]

\* col.rolling(window=w).mean() at row i
RollingMean(col, w, i) == IF i < w THEN NaN ELSE Frac(SumRange(col, i - w + 1, i), w)

\* _calculate_mas: the columns MA5, MA10, MA20 (w = 5, 10, 20) and MA60.
MA(df, w, i) == RollingMean(Close(df), w, i)

MA60(df, i) == IF Len(df) >= 60 THEN MA(df, 60, i) ELSE MA(df, 20, i)

\* series.ewm(alpha = a/b, adjust=False).mean(): y[1] = x[1],
\* y[t] = (a*x[t] + (b-a)*y[t-1]) / b.  A step with x[t] = y[t-1] leaves the
\* value as it is ((a*y + (b-a)*y)/b = y).
\* The rows lo..hi of the column, prev being the value of row lo - 1 (the
\* rows are computed first to last, the range halved to keep the nesting of
\* the evaluation shallow).
RECURSIVE EwmCol(_, _, _, _, _, _)
EwmCol(xs, a, b, prev, lo, hi) ==
    IF lo > hi THEN <<>>
    ELSE IF lo = hi
    THEN <<IF lo = 1 THEN xs[1]
           ELSE IF xs[lo] = prev THEN xs[lo]
           ELSE RatLin(a, xs[lo], b - a, prev, b)>>
    ELSE LET mid == (lo + hi) \div 2
             left == EwmCol(xs, a, b, prev, lo, mid)
             right == EwmCol(xs, a, b, left[Len(left)], mid + 1, hi)
         IN  left \o right

Ewm(xs, a, b) == EwmCol(xs, a, b, RatInt(0), 1, Len(xs))

\* ewm(span=n): alpha = 2/(n+1)
EwmSpan(xs, n) == Ewm(xs, 2, n + 1)

\* _calculate_macd: the columns MACD_DIF, MACD_DEA, MACD_BAR.
_calculate_macd(df) ==
    LET close == <<>> \o [i \in 1..Len(df) |-> RatInt(df[i].close)]
        ema_fast == EwmSpan(close, MACD_FAST)
        ema_slow == EwmSpan(close, MACD_SLOW)
        dif == <<>> \o [i \in 1..Len(df) |-> RatSub(ema_fast[i], ema_slow[i])]
        dea == EwmSpan(dif, MACD_SIGNAL)
    IN  [MACD_DIF |-> dif,
         MACD_DEA |-> dea,
         MACD_BAR |-> [i \in 1..Len(df) |-> RatLin(2, dif[i], -2, dea[i], 1)]]

\* _calculate_rsi: the column RSI_<period> at row i.  gain and loss are 0 on
\* row 1 (the diff is NaN there); rs = avg_gain / avg_loss is inf when only
\* avg_loss is 0 (rsi = 100 - 100/inf = 100) and NaN when both are 0
\* (filled with 50), as it is before row `period'.
Gain(df, j) == IF j > 1 /\ df[j].close > df[j - 1].close THEN df[j].close - df[j - 1].close ELSE 0

Loss(df, j) == IF j > 1 /\ df[j].close < df[j - 1].close THEN df[j - 1].close - df[j].close ELSE 0

\* the neutral value wherever the window has no loss, gains or not
RSINeutralWithoutLoss(df, period, i) ==
    IF i < period THEN FracInt(50)
    ELSE LET g == SumRange([j \in 1..Len(df) |-> Gain(df, j)], i - period + 1, i)
             l == SumRange([j \in 1..Len(df) |-> Loss(df, j)], i - period + 1, i)
         IN  IF l = 0 THEN FracInt(50) ELSE Frac(100 * g, g + l)

RSI(df, period, i) ==
    IF i < period THEN FracInt(50)
    ELSE LET g == SumRange([j \in 1..Len(df) |-> Gain(df, j)], i - period + 1, i)
             l == SumRange([j \in 1..Len(df) |-> Loss(df, j)], i - period + 1, i)
         IN  IF l = 0 THEN (IF g = 0 THEN FracInt(50) ELSE FracInt(100))
             ELSE Frac(100 * g, g + l)

RECURSIVE MinRange(_, _, _)
MinRange(col, lo, hi) ==
    IF lo = hi THEN col[lo] ELSE MinOf(col[lo], MinRange(col, lo + 1, hi))

RECURSIVE MaxRange(_, _, _)
MaxRange(col, lo, hi) ==
    IF lo = hi THEN col[lo] ELSE MaxOf(col[lo], MaxRange(col, lo + 1, hi))

\* _calculate_kdj, rsv at row i: NaN before row n and where the 9-bar range
\* is 0 (replaced by NaN), filled with 50.
\* a window without range taken as a close at the low of the range
RSVAtTheLow(df, n, i) ==
    IF i < n THEN RatInt(50)
    ELSE LET low_n == MinRange([j \in 1..Len(df) |-> df[j].low], i - n + 1, i)
             high_n == MaxRange([j \in 1..Len(df) |-> df[j].high], i - n + 1, i)
         IN  IF high_n - low_n = 0 THEN RatInt(0)
             ELSE RatDiv(RatInt((df[i].close - low_n) * 100), high_n - low_n)

RSV(df, n, i) ==
    IF i < n THEN RatInt(50)
    ELSE LET low_n == MinRange([j \in 1..Len(df) |-> df[j].low], i - n + 1, i)
             high_n == MaxRange([j \in 1..Len(df) |-> df[j].high], i - n + 1, i)
         IN  IF high_n - low_n = 0 THEN RatInt(50)
             ELSE RatDiv(RatInt((df[i].close - low_n) * 100), high_n - low_n)

\* _calculate_kdj: the columns KDJ_K, KDJ_D, KDJ_J.
_calculate_kdj(df) ==
    LET rsv == <<>> \o [i \in 1..Len(df) |-> RSV(df, KDJ_N, i)]
        K == Ewm(rsv, 1, KDJ_M1)
        D == Ewm(K, 1, KDJ_M2)
    IN  [KDJ_K |-> K,
         KDJ_D |-> D,
         KDJ_J |-> [i \in 1..Len(df) |-> RatLin(3, K[i], -2, D[i], 1)]]

\* close.rolling(window=w).std() squared at row i >= w (sample variance,
\* ddof = 1): (w * sum(x^2) - sum(x)^2) / (w * (w - 1)).
RollingVar(col, w, i) ==
    LET sm == SumRange(col, i - w + 1, i)
        sq == SumRange([j \in 1..Len(col) |-> col[j] * col[j]], i - w + 1, i)
    IN  Frac(w * sq - sm * sm, w * (w - 1))

\* _calculate_boll at row i >= BOLL_PERIOD: BOLL_MID, BOLL_UPPER, BOLL_LOWER
\* (std_mult * std = sqrt(std_mult^2 * variance)).
BOLL_MID(df, i) == RollingMean(Close(df), BOLL_PERIOD, i)

BandQ(df, i) ==
    FracMul(FracInt(BOLL_STD * BOLL_STD), RollingVar(Close(df), BOLL_PERIOD, i))

BOLL_UPPER(df, i) == IF i < BOLL_PERIOD THEN NaN ELSE Surd(BOLL_MID(df, i), 1, BandQ(df, i))

BOLL_LOWER(df, i) == IF i < BOLL_PERIOD THEN NaN ELSE Surd(BOLL_MID(df, i), -1, BandQ(df, i))

\* _calculate_obv: the column OBV (the frames of the model have a volume column).
\* the volume of a day signed by the move of the day after it
DirectionOfNextDay(df, j) ==
    IF j = Len(df) THEN 0
    ELSE IF df[j + 1].close > df[j].close THEN 1
    ELSE IF df[j + 1].close < df[j].close THEN -1
    ELSE 0

Direction(df, j) ==
    IF j = 1 THEN 0
    ELSE IF df[j].close > df[j - 1].close THEN 1
    ELSE IF df[j].close < df[j - 1].close THEN -1
    ELSE 0

OBV(df, i) == SumRange([j \in 1..Len(df) |-> Direction(df, j) * df[j].volume], 1, i)

(***************************************************************************)
(* The classifiers.  Each takes the sorted frame and the result so far and *)
(* yields the result with the fields it assigns.                           *)
(***************************************************************************)
\* x > 0 for a column entry (false for NaN, as in Python)
Positive(x) == x # NaN /\ x.n > 0

Pct(x, y) == FracMul(FracDiv(x, y), FracInt(100))

\* averages within one percent of each other taken as entangled
TrendWithTolerance(df, result) ==
    LET ma5 == result.ma5
        ma10 == result.ma10
        ma20 == result.ma20
        prev == IF Len(df) >= 5 THEN Len(df) - 4 ELSE Len(df)
        prevMA5 == MA(df, 5, prev)
        prevMA20 == MA(df, 20, prev)
        bull_prev == IF Positive(prevMA20) THEN Pct(FracSub(prevMA5, prevMA20), prevMA20)
                     ELSE Zero
        bull_curr == IF ma20.n > 0 THEN Pct(FracSub(ma5, ma20), ma20) ELSE Zero
        \* NaN where MA20 is NaN on that row; a comparison with NaN is false
        bear_prev == IF Positive(prevMA5)
                     THEN (IF prevMA20 = NaN THEN NaN
                           ELSE Pct(FracSub(prevMA20, prevMA5), prevMA5))
                     ELSE Zero
        bear_curr == IF ma5.n > 0 THEN Pct(FracSub(ma20, ma5), ma5) ELSE Zero
        set(st, al, str) == [result EXCEPT !.trend_status = st, !.ma_alignment = al,
                                           !.trend_strength = str]
        near == FracLt(FracMul(FracInt(100), FracSub(ma5, ma10)), ma10)
                    /\ FracLt(FracMul(FracInt(100), FracSub(ma10, ma5)), ma10)
    IN  IF near THEN set("CONSOLIDATION", "averages entangled, trend unclear", 50)
        ELSE IF FracGt(ma5, ma10) /\ FracGt(ma10, ma20)
        THEN IF FracGt(bull_curr, bull_prev) /\ FracGt(bull_curr, FracInt(5))
             THEN set("STRONG_BULL", "strong bull alignment, averages fanning up", 90)
             ELSE set("BULL", "bull alignment MA5>MA10>MA20", 75)
        ELSE IF FracGt(ma5, ma10) /\ FracLe(ma10, ma20)
        THEN set("WEAK_BULL", "weak bull, MA5>MA10 but MA10<=MA20", 55)
        ELSE IF FracLt(ma5, ma10) /\ FracLt(ma10, ma20)
        THEN IF bear_prev # NaN /\ FracGt(bear_curr, bear_prev)
                /\ FracGt(bear_curr, FracInt(5))
             THEN set("STRONG_BEAR", "strong bear alignment, averages fanning down", 10)
             ELSE set("BEAR", "bear alignment MA5<MA10<MA20", 25)
        ELSE IF FracLt(ma5, ma10) /\ FracGe(ma10, ma20)
        THEN set("WEAK_BEAR", "weak bear, MA5<MA10 but MA10>=MA20", 40)
        ELSE set("CONSOLIDATION", "averages entangled, trend unclear", 50)

_analyze_trend(df, result) ==
    LET ma5 == result.ma5
        ma10 == result.ma10
        ma20 == result.ma20
        prev == IF Len(df) >= 5 THEN Len(df) - 4 ELSE Len(df)
        prevMA5 == MA(df, 5, prev)
        prevMA20 == MA(df, 20, prev)
        bull_prev == IF Positive(prevMA20) THEN Pct(FracSub(prevMA5, prevMA20), prevMA20)
                     ELSE Zero
        bull_curr == IF ma20.n > 0 THEN Pct(FracSub(ma5, ma20), ma20) ELSE Zero
        \* NaN where MA20 is NaN on that row; a comparison with NaN is false
        bear_prev == IF Positive(prevMA5)
                     THEN (IF prevMA20 = NaN THEN NaN
                           ELSE Pct(FracSub(prevMA20, prevMA5), prevMA5))
                     ELSE Zero
        bear_curr == IF ma5.n > 0 THEN Pct(FracSub(ma20, ma5), ma5) ELSE Zero
        set(st, al, str) == [result EXCEPT !.trend_status = st, !.ma_alignment = al,
                                           !.trend_strength = str]
    IN  IF FracGt(ma5, ma10) /\ FracGt(ma10, ma20)
        THEN IF FracGt(bull_curr, bull_prev) /\ FracGt(bull_curr, FracInt(5))
             THEN set("STRONG_BULL", "strong bull alignment, averages fanning up", 90)
             ELSE set("BULL", "bull alignment MA5>MA10>MA20", 75)
        ELSE IF FracGt(ma5, ma10) /\ FracLe(ma10, ma20)
        THEN set("WEAK_BULL", "weak bull, MA5>MA10 but MA10<=MA20", 55)
        ELSE IF FracLt(ma5, ma10) /\ FracLt(ma10, ma20)
        THEN IF bear_prev # NaN /\ FracGt(bear_curr, bear_prev)
                /\ FracGt(bear_curr, FracInt(5))
             THEN set("STRONG_BEAR", "strong bear alignment, averages fanning down", 10)
             ELSE set("BEAR", "bear alignment MA5<MA10<MA20", 25)
        ELSE IF FracLt(ma5, ma10) /\ FracGe(ma10, ma20)
        THEN set("WEAK_BEAR", "weak bear, MA5<MA10 but MA10>=MA20", 40)
        ELSE set("CONSOLIDATION", "averages entangled, trend unclear", 50)

\* the bias taken as the ratio of price to average, not the deviation from it
BiasAsRatio(result) ==
    LET ratio(ma) == Pct(result.current_price, ma)
    IN  [result EXCEPT !.bias_ma5 = ratio(result.ma5), !.bias_ma10 = ratio(result.ma10),
                       !.bias_ma20 = ratio(result.ma20)]

_calculate_bias(result) ==
    LET price == result.current_price
        bias(ma) == Pct(FracSub(price, ma), ma)
    IN  [result EXCEPT
           !.bias_ma5 = IF result.ma5.n > 0 THEN bias(result.ma5) ELSE @,
           !.bias_ma10 = IF result.ma10.n > 0 THEN bias(result.ma10) ELSE @,
           !.bias_ma20 = IF result.ma20.n > 0 THEN bias(result.ma20) ELSE @]

\* the average taken over the last five bars, the latest bar among them
VolumeAverageWithLatest(df, result) ==
    IF Len(df) < 5 THEN result
    ELSE LET n == Len(df)
             vol_5d_avg == Frac(SumRange([j \in 1..n |-> df[j].volume], n - 4, n), 5)
             ratio == IF vol_5d_avg.n > 0 THEN FracDiv(FracInt(df[n].volume), vol_5d_avg)
                      ELSE result.volume_ratio_5d
             up == df[n].close > df[n - 1].close
             set(st, tr) == [result EXCEPT !.volume_ratio_5d = ratio,
                                           !.volume_status = st, !.volume_trend = tr]
         IN  IF FracGe(ratio, VOLUME_HEAVY_RATIO)
             THEN IF up THEN set("HEAVY_VOLUME_UP", "heavy volume rise, bulls strong")
                  ELSE set("HEAVY_VOLUME_DOWN", "heavy volume fall, mind the risk")
             ELSE IF FracLe(ratio, VOLUME_SHRINK_RATIO)
             THEN IF up THEN set("SHRINK_VOLUME_UP", "shrinking volume rise, weak momentum")
                  ELSE set("SHRINK_VOLUME_DOWN", "shrinking volume pullback, washout (good)")
             ELSE set("NORMAL", "volume normal")

_analyze_volume(df, result) ==
    IF Len(df) < 5 THEN result
    ELSE LET n == Len(df)
             lo == MaxOf(1, n - 5)
             vol_5d_avg == Frac(SumRange([j \in 1..n |-> df[j].volume], lo, n - 1), n - lo)
             ratio == IF vol_5d_avg.n > 0 THEN FracDiv(FracInt(df[n].volume), vol_5d_avg)
                      ELSE result.volume_ratio_5d
             up == df[n].close > df[n - 1].close
             set(st, tr) == [result EXCEPT !.volume_ratio_5d = ratio,
                                           !.volume_status = st, !.volume_trend = tr]
         IN  IF FracGe(ratio, VOLUME_HEAVY_RATIO)
             THEN IF up THEN set("HEAVY_VOLUME_UP", "heavy volume rise, bulls strong")
                  ELSE set("HEAVY_VOLUME_DOWN", "heavy volume fall, mind the risk")
             ELSE IF FracLe(ratio, VOLUME_SHRINK_RATIO)
             THEN IF up THEN set("SHRINK_VOLUME_UP", "shrinking volume rise, weak momentum")
                  ELSE set("SHRINK_VOLUME_DOWN", "shrinking volume pullback, washout (good)")
             ELSE set("NORMAL", "volume normal")

_analyze_support_resistance(df, result) ==
    LET price == result.current_price
        near(ma) == ma.n > 0
                    /\ FracLe(FracDiv(FracAbs(FracSub(price, ma)), ma), MA_SUPPORT_TOLERANCE)
                    /\ FracGe(price, ma)
        s5 == near(result.ma5)
        s10 == near(result.ma10)
        l1 == IF s5 THEN <<result.ma5>> ELSE <<>>
        l2 == IF s10 /\ \A k \in 1..Len(l1) : l1[k] # result.ma10
              THEN Append(l1, result.ma10) ELSE l1
        l3 == IF result.ma20.n > 0 /\ FracGe(price, result.ma20)
              THEN Append(l2, result.ma20) ELSE l2
        recent_high == FracInt(MaxRange([j \in 1..Len(df) |-> df[j].high],
                                        Len(df) - 19, Len(df)))
    IN  [result EXCEPT
           !.support_ma5 = s5,
           !.support_ma10 = s10,
           !.support_levels = l3,
           !.resistance_levels = IF Len(df) >= 20 /\ FracGt(recent_high, price)
                                 THEN <<recent_high>> ELSE <<>>]

\* macd: the columns of _calculate_macd(df)
\* a level test in place of the crossing test: DIF above DEA on the latest bar
GoldenCrossByLevel(prev_dif_dea, curr_dif_dea) == curr_dif_dea > 0

\* is_golden_cross: DIF crosses above DEA (arguments are the signs of DIF - DEA)
GoldenCross(prev_dif_dea, curr_dif_dea) == prev_dif_dea <= 0 /\ curr_dif_dea > 0

\* is_death_cross: DIF crosses below DEA
\* a death cross wherever DIF is below DEA, crossing or not
DeathCrossByLevel(prev_dif_dea, curr_dif_dea) == curr_dif_dea < 0

DeathCross(prev_dif_dea, curr_dif_dea) == prev_dif_dea >= 0 /\ curr_dif_dea < 0

\* the crossings of the zero line tested before the crosses of DIF and DEA
MacdZeroCrossingFirst(df, macd, result) ==
    IF Len(df) < MACD_SLOW THEN [result EXCEPT !.macd_signal = "insufficient data"]
    ELSE LET n == Len(df)
             dif == macd.MACD_DIF[n]
             dea == macd.MACD_DEA[n]
             prev_dif_dea == RatSign(RatSub(macd.MACD_DIF[n - 1], macd.MACD_DEA[n - 1]))
             curr_dif_dea == RatSign(RatSub(dif, dea))
             is_golden_cross == GoldenCross(prev_dif_dea, curr_dif_dea)
             is_death_cross == DeathCross(prev_dif_dea, curr_dif_dea)
             prev_zero == RatSign(macd.MACD_DIF[n - 1])
             curr_zero == RatSign(dif)
             is_crossing_up == prev_zero <= 0 /\ curr_zero > 0
             is_crossing_down == prev_zero >= 0 /\ curr_zero < 0
             set(st, sig) == [result EXCEPT !.macd_dif = dif, !.macd_dea = dea,
                                            !.macd_bar = macd.MACD_BAR[n],
                                            !.macd_status = st, !.macd_signal = sig]
         IN  IF is_crossing_up
             THEN set("CROSSING_UP", "DIF crosses above zero, trend strengthening")
             ELSE IF is_crossing_down
             THEN set("CROSSING_DOWN", "DIF crosses below zero, trend weakening")
             ELSE IF is_golden_cross /\ curr_zero > 0
             THEN set("GOLDEN_CROSS_ZERO", "golden cross above zero, strong buy signal")
             ELSE IF is_golden_cross
             THEN set("GOLDEN_CROSS", "golden cross, trend up")
             ELSE IF is_death_cross
             THEN set("DEATH_CROSS", "death cross, trend down")
             ELSE IF RatSign(dif) > 0 /\ RatSign(dea) > 0
             THEN set("BULLISH", "bull alignment, rise continues")
             ELSE IF RatSign(dif) < 0 /\ RatSign(dea) < 0
             THEN set("BEARISH", "bear alignment, fall continues")
             ELSE set("BULLISH", "MACD neutral zone")

_analyze_macd(df, macd, result) ==
    IF Len(df) < MACD_SLOW THEN [result EXCEPT !.macd_signal = "insufficient data"]
    ELSE LET n == Len(df)
             dif == macd.MACD_DIF[n]
             dea == macd.MACD_DEA[n]
             prev_dif_dea == RatSign(RatSub(macd.MACD_DIF[n - 1], macd.MACD_DEA[n - 1]))
             curr_dif_dea == RatSign(RatSub(dif, dea))
             is_golden_cross == GoldenCross(prev_dif_dea, curr_dif_dea)
             is_death_cross == DeathCross(prev_dif_dea, curr_dif_dea)
             prev_zero == RatSign(macd.MACD_DIF[n - 1])
             curr_zero == RatSign(dif)
             is_crossing_up == prev_zero <= 0 /\ curr_zero > 0
             is_crossing_down == prev_zero >= 0 /\ curr_zero < 0
             set(st, sig) == [result EXCEPT !.macd_dif = dif, !.macd_dea = dea,
                                            !.macd_bar = macd.MACD_BAR[n],
                                            !.macd_status = st, !.macd_signal = sig]
         IN  IF is_golden_cross /\ curr_zero > 0
             THEN set("GOLDEN_CROSS_ZERO", "golden cross above zero, strong buy signal")
             ELSE IF is_crossing_up
             THEN set("CROSSING_UP", "DIF crosses above zero, trend strengthening")
             ELSE IF is_golden_cross
             THEN set("GOLDEN_CROSS", "golden cross, trend up")
             ELSE IF is_death_cross
             THEN set("DEATH_CROSS", "death cross, trend down")
             ELSE IF is_crossing_down
             THEN set("CROSSING_DOWN", "DIF crosses below zero, trend weakening")
             ELSE IF RatSign(dif) > 0 /\ RatSign(dea) > 0
             THEN set("BULLISH", "bull alignment, rise continues")
             ELSE IF RatSign(dif) < 0 /\ RatSign(dea) < 0
             THEN set("BEARISH", "bear alignment, fall continues")
             ELSE set("BULLISH", "MACD neutral zone")

_analyze_rsi(df, result) ==
    IF Len(df) < RSI_LONG THEN [result EXCEPT !.rsi_signal = "insufficient data"]
    ELSE LET n == Len(df)
             rsi_mid == RSI(df, RSI_MID, n)
             set(st, sig) == [result EXCEPT !.rsi_6 = RSI(df, RSI_SHORT, n),
                                            !.rsi_12 = rsi_mid,
                                            !.rsi_24 = RSI(df, RSI_LONG, n),
                                            !.rsi_status = st, !.rsi_signal = sig]
         IN  IF FracGt(rsi_mid, FracInt(RSI_OVERBOUGHT))
             THEN set("OVERBOUGHT", "RSI overbought, pullback risk high")
             ELSE IF FracGt(rsi_mid, FracInt(60))
             THEN set("STRONG_BUY", "RSI strong, bulls in force")
             ELSE IF FracGe(rsi_mid, FracInt(40))
             THEN set("NEUTRAL", "RSI neutral, consolidating")
             ELSE IF FracGe(rsi_mid, FracInt(RSI_OVERSOLD))
             THEN set("WEAK", "RSI weak, watch for rebound")
             ELSE set("OVERSOLD", "RSI oversold, rebound likely")

\* kdj: the columns of _calculate_kdj(df)
\* the crosses tested before the overbought and oversold zones
KdjCrossesFirst(df, kdj, result) ==
    IF Len(df) < KDJ_N THEN [result EXCEPT !.kdj_signal = "insufficient data"]
    ELSE LET n == Len(df)
             k == kdj.KDJ_K[n]
             d == kdj.KDJ_D[n]
             j == kdj.KDJ_J[n]
             prev_k_d == RatSign(RatSub(kdj.KDJ_K[n - 1], kdj.KDJ_D[n - 1]))
             curr_k_d == RatSign(RatSub(k, d))
             gt(x, c) == RatGt(x, RatInt(c))
             lt(x, c) == RatLt(x, RatInt(c))
             set(st, sig) == [result EXCEPT !.kdj_k = k, !.kdj_d = d, !.kdj_j = j,
                                            !.kdj_status = st, !.kdj_signal = sig]
         IN  IF prev_k_d <= 0 /\ curr_k_d > 0
             THEN set("GOLDEN_CROSS", "KDJ golden cross (K crosses above D)")
             ELSE IF prev_k_d >= 0 /\ curr_k_d < 0
             THEN set("DEATH_CROSS", "KDJ death cross (K crosses below D)")
             ELSE IF gt(j, 100) \/ (gt(k, 80) /\ gt(d, 80))
             THEN set("OVERBOUGHT", "KDJ overbought")
             ELSE IF lt(j, 0) \/ (lt(k, 20) /\ lt(d, 20))
             THEN set("OVERSOLD", "KDJ oversold")
             ELSE IF curr_k_d > 0
             THEN set("BULLISH", "K>D, leaning bullish")
             ELSE IF curr_k_d < 0
             THEN set("BEARISH", "K<D, leaning bearish")
             ELSE set("NEUTRAL", "KDJ neutral")

_analyze_kdj(df, kdj, result) ==
    IF Len(df) < KDJ_N THEN [result EXCEPT !.kdj_signal = "insufficient data"]
    ELSE LET n == Len(df)
             k == kdj.KDJ_K[n]
             d == kdj.KDJ_D[n]
             j == kdj.KDJ_J[n]
             prev_k_d == RatSign(RatSub(kdj.KDJ_K[n - 1], kdj.KDJ_D[n - 1]))
             curr_k_d == RatSign(RatSub(k, d))
             is_golden == prev_k_d <= 0 /\ curr_k_d > 0
             is_death == prev_k_d >= 0 /\ curr_k_d < 0
             gt(x, c) == RatGt(x, RatInt(c))
             lt(x, c) == RatLt(x, RatInt(c))
             set(st, sig) == [result EXCEPT !.kdj_k = k, !.kdj_d = d, !.kdj_j = j,
                                            !.kdj_status = st, !.kdj_signal = sig]
         IN  IF gt(j, 100) \/ (gt(k, 80) /\ gt(d, 80))
             THEN set("OVERBOUGHT", "KDJ overbought")
             ELSE IF lt(j, 0) \/ (lt(k, 20) /\ lt(d, 20))
             THEN set("OVERSOLD", "KDJ oversold")
             ELSE IF is_golden /\ lt(k, 30)
             THEN set("GOLDEN_CROSS", "low golden cross (K crosses above D), buy signal")
             ELSE IF is_golden
             THEN set("GOLDEN_CROSS", "KDJ golden cross (K crosses above D)")
             ELSE IF is_death
             THEN set("DEATH_CROSS", "KDJ death cross (K crosses below D)")
             ELSE IF curr_k_d > 0
             THEN set("BULLISH", "K>D, leaning bullish")
             ELSE IF curr_k_d < 0
             THEN set("BEARISH", "K<D, leaning bearish")
             ELSE set("NEUTRAL", "KDJ neutral")

\* the classifier skipped whatever the length of the series
BollSkipped(df, result) == [result EXCEPT !.boll_signal = "insufficient data"]

_analyze_boll(df, result) ==
    IF Len(df) < BOLL_PERIOD THEN [result EXCEPT !.boll_signal = "insufficient data"]
    ELSE LET n == Len(df)
             price == result.current_price
             upper == BOLL_UPPER(df, n)
             mid == BOLL_MID(df, n)
             lower == BOLL_LOWER(df, n)
             \* band_width / 2 = sqrt(upper.q); the position is clamped to [-1, 1]
             off == FracSub(price, mid)
             ratio == FracDiv(FracMul(off, off), upper.q)
             position == IF upper.q.n > 0
                         THEN Surd(Zero, FracSign(off),
                                   IF FracGe(ratio, FracInt(1)) THEN FracInt(1) ELSE ratio)
                         ELSE result.boll_position
             obv_curr == OBV(df, n)
             obv_5d == OBV(df, n - 5)
             obv_trend == IF obv_5d = 0 THEN result.obv_trend
                          ELSE IF 100 * Abs(obv_curr - obv_5d) > Abs(obv_5d)
                          THEN "OBV 5-day change" ELSE "OBV flat"
             set(st, sig) == [result EXCEPT !.boll_upper = upper, !.boll_mid = mid,
                                            !.boll_lower = lower, !.boll_position = position,
                                            !.boll_status = st, !.boll_signal = sig,
                                            !.obv = obv_curr, !.obv_trend = obv_trend]
         IN  IF SurdCmpScaled(price, Frac(98, 100), upper) >= 0
             THEN set("UPPER_BREAK", "breaks the upper band, strong (beware pullback)")
             ELSE IF SurdCmpScaled(price, Frac(102, 100), lower) <= 0
             THEN set("LOWER_BREAK", "falls below the lower band, oversold (watch rebound)")
             ELSE IF SurdCmpScaled(price, Frac(96, 100), upper) >= 0
             THEN set("UPPER_NEAR", "near the upper band, leaning strong")
             ELSE IF SurdCmpScaled(price, Frac(104, 100), lower) <= 0
             THEN set("LOWER_NEAR", "near the lower band, potential buy point")
             ELSE IF FracGe(price, mid) /\ SurdCmpScaled(price, FracInt(1), upper) < 0
             THEN set("MID_SUPPORT", "above the middle band, supported")
             ELSE IF FracLt(price, mid) /\ SurdCmpScaled(price, FracInt(1), lower) > 0
             THEN set("MID_RESISTANCE", "below the middle band, under pressure")
             ELSE set("NORMAL", "inside the channel")

(***************************************************************************)
(* _generate_signal.                                                       *)
(***************************************************************************)
\* Python 3 round() of the quotient n / d (d > 0): to nearest, ties to even.
\* rounding that takes a half upwards, where round() takes it to the even integer
RoundHalfUp(n, d) == (2 * n + d) \div (2 * d)

\* round(n / d) for d > 0: to the nearest integer, a half to the even one
PyRound(n, d) ==
    LET q == n \div d
        r == n % d
    IN  IF 2 * r < d THEN q
        ELSE IF 2 * r > d THEN q + 1
        ELSE IF q % 2 = 0 THEN q ELSE q + 1

Entry(by, text) == [by |-> by, text |-> text]

Section(raw, reasons, risks) == [raw |-> raw, reasons |-> reasons, risks |-> risks]

TrendSection(result) ==
    LET st == result.trend_status
        trend_scores == [STRONG_BULL |-> 28, BULL |-> 24, WEAK_BULL |-> 16,
                         CONSOLIDATION |-> 10, WEAK_BEAR |-> 6, BEAR |-> 3,
                         STRONG_BEAR |-> 0]
    IN  Section(trend_scores[st],
                IF st \in {"STRONG_BULL", "BULL"}
                THEN <<Entry(1, <<"OK", TrendStatus[st], "go long with the trend">>)>>
                ELSE <<>>,
                IF st \in {"BEAR", "STRONG_BEAR"}
                THEN <<Entry(1, <<"WARN", TrendStatus[st], "do not go long">>)>>
                ELSE <<>>)

BiasSection(result) ==
    LET bias == result.bias_ma5
        lt(c) == FracLt(bias, FracInt(c))
        gt(c) == FracGt(bias, FracInt(c))
    IN  IF lt(0)
        THEN IF gt(-3)
             THEN Section(18, <<Entry(2, <<"OK", "price slightly below MA5, pullback buy point">>)>>, <<>>)
             ELSE IF gt(-5)
             THEN Section(14, <<Entry(2, <<"OK", "price pulls back to MA5, watch support">>)>>, <<>>)
             ELSE Section(8, <<>>, <<Entry(2, <<"WARN", "bias too large, may break down">>)>>)
        ELSE IF lt(2)
        THEN Section(16, <<Entry(2, <<"OK", "price close to MA5, good entry">>)>>, <<>>)
        ELSE IF lt(BIAS_THRESHOLD)
        THEN Section(12, <<Entry(2, <<"FLASH", "price slightly above MA5, small position">>)>>, <<>>)
        ELSE Section(3, <<>>, <<Entry(2, <<"NO", "bias too high (>5%), never chase">>)>>)

\* the shrinking-volume pullback scored as the shrinking-volume rise is
VolumeSectionWithoutPreference(result) ==
    LET st == result.volume_status
        volume_scores == [SHRINK_VOLUME_DOWN |-> 5, HEAVY_VOLUME_UP |-> 10, NORMAL |-> 8,
                          SHRINK_VOLUME_UP |-> 5, HEAVY_VOLUME_DOWN |-> 0]
    IN  Section(volume_scores[st],
                IF st = "SHRINK_VOLUME_DOWN"
                THEN <<Entry(3, <<"OK", "shrinking volume pullback, washout">>)>> ELSE <<>>,
                IF st = "HEAVY_VOLUME_DOWN"
                THEN <<Entry(3, <<"WARN", "heavy volume fall, mind the risk">>)>> ELSE <<>>)

VolumeSection(result) ==
    LET st == result.volume_status
        volume_scores == [SHRINK_VOLUME_DOWN |-> 12, HEAVY_VOLUME_UP |-> 10, NORMAL |-> 8,
                          SHRINK_VOLUME_UP |-> 5, HEAVY_VOLUME_DOWN |-> 0]
    IN  Section(volume_scores[st],
                IF st = "SHRINK_VOLUME_DOWN"
                THEN <<Entry(3, <<"OK", "shrinking volume pullback, washout">>)>> ELSE <<>>,
                IF st = "HEAVY_VOLUME_DOWN"
                THEN <<Entry(3, <<"WARN", "heavy volume fall, mind the risk">>)>> ELSE <<>>)

SupportSection(result) ==
    Section((IF result.support_ma5 THEN 4 ELSE 0) + (IF result.support_ma10 THEN 4 ELSE 0),
            (IF result.support_ma5 THEN <<Entry(4, <<"OK", "MA5 support holds">>)>> ELSE <<>>)
            \o (IF result.support_ma10 THEN <<Entry(4, <<"OK", "MA10 support holds">>)>>
                ELSE <<>>),
            <<>>)

MacdSection(result) ==
    LET st == result.macd_status
        macd_scores == [GOLDEN_CROSS_ZERO |-> 12, GOLDEN_CROSS |-> 10, CROSSING_UP |-> 8,
                        BULLISH |-> 6, BEARISH |-> 1, CROSSING_DOWN |-> 0,
                        DEATH_CROSS |-> 0]
    IN  Section(IF st \in DOMAIN macd_scores THEN macd_scores[st] ELSE 5,
                IF st \in {"GOLDEN_CROSS_ZERO", "GOLDEN_CROSS"}
                THEN <<Entry(5, <<"OK", result.macd_signal>>)>>
                ELSE IF st \in {"DEATH_CROSS", "CROSSING_DOWN"} THEN <<>>
                ELSE <<Entry(5, <<result.macd_signal>>)>>,
                IF st \in {"DEATH_CROSS", "CROSSING_DOWN"}
                THEN <<Entry(5, <<"WARN", result.macd_signal>>)>> ELSE <<>>)

RsiSection(result) ==
    LET st == result.rsi_status
        rsi_scores == [OVERSOLD |-> 7, STRONG_BUY |-> 6, NEUTRAL |-> 4, WEAK |-> 2,
                       OVERBOUGHT |-> 0]
    IN  Section(IF st \in DOMAIN rsi_scores THEN rsi_scores[st] ELSE 4,
                IF st \in {"OVERSOLD", "STRONG_BUY"}
                THEN <<Entry(6, <<"OK", result.rsi_signal>>)>>
                ELSE IF st = "OVERBOUGHT" THEN <<>>
                ELSE <<Entry(6, <<result.rsi_signal>>)>>,
                IF st = "OVERBOUGHT"
                THEN <<Entry(6, <<"WARN", result.rsi_signal>>)>> ELSE <<>>)

KdjSection(result) ==
    LET st == result.kdj_status
        kdj_scores == [GOLDEN_CROSS |-> 8, OVERSOLD |-> 7, BULLISH |-> 5, NEUTRAL |-> 3,
                       BEARISH |-> 1, DEATH_CROSS |-> 0, OVERBOUGHT |-> 0]
    IN  Section(kdj_scores[st],
                IF st \in {"GOLDEN_CROSS", "OVERSOLD"}
                THEN <<Entry(7, <<"OK", result.kdj_signal>>)>> ELSE <<>>,
                IF st \in {"DEATH_CROSS", "OVERBOUGHT"}
                THEN <<Entry(7, <<"WARN", result.kdj_signal>>)>> ELSE <<>>)

\* a break of the upper band scored with nothing
BollSectionWithoutUpperBreak(result) ==
    LET st == result.boll_status
        boll_scores == [LOWER_BREAK |-> 7, LOWER_NEAR |-> 6, MID_SUPPORT |-> 5, NORMAL |-> 4,
                        UPPER_NEAR |-> 2, MID_RESISTANCE |-> 1, UPPER_BREAK |-> 0]
    IN  Section(boll_scores[st],
                IF st \in {"LOWER_BREAK", "LOWER_NEAR", "MID_SUPPORT"}
                THEN <<Entry(8, <<"OK", result.boll_signal>>)>> ELSE <<>>,
                <<>>)

BollSection(result) ==
    LET st == result.boll_status
        boll_scores == [LOWER_BREAK |-> 7, LOWER_NEAR |-> 6, MID_SUPPORT |-> 5, NORMAL |-> 4,
                        UPPER_NEAR |-> 2, MID_RESISTANCE |-> 1, UPPER_BREAK |-> 1]
    IN  Section(boll_scores[st],
                IF st \in {"LOWER_BREAK", "LOWER_NEAR", "MID_SUPPORT"}
                THEN <<Entry(8, <<"OK", result.boll_signal>>)>> ELSE <<>>,
                <<>>)

\* The eight scoring sections in the order _generate_signal runs them.
Sections(result) ==
    <<TrendSection(result), BiasSection(result), VolumeSection(result),
      SupportSection(result), MacdSection(result), RsiSection(result),
      KdjSection(result), BollSection(result)>>

\* the raw score multiplied by the weight and not divided by the default weight
ScaledUndivided(raw, wi, di) == IF di # 0 THEN raw * wi ELSE 0

\* round(raw * w[i] / d[i]) if d[i] else 0
Scaled(raw, wi, di) == IF di # 0 THEN PyRound(raw * wi, di) ELSE 0

RECURSIVE SumScores(_, _, _, _)
SumScores(sec, w, d, i) ==
    IF i = 0 THEN 0 ELSE Scaled(sec[i].raw, w[i], d[i]) + SumScores(sec, w, d, i - 1)

\* the reasons of a section put at the front of the list: insert(0, ...) for append
RECURSIVE ReasonsNewestFirst(_, _)
ReasonsNewestFirst(sec, i) ==
    IF i = 0 THEN <<>> ELSE sec[i].reasons \o ReasonsNewestFirst(sec, i - 1)

RECURSIVE Reasons(_, _)
Reasons(sec, i) == IF i = 0 THEN <<>> ELSE Reasons(sec, i - 1) \o sec[i].reasons

RECURSIVE Risks(_, _)
Risks(sec, i) == IF i = 0 THEN <<>> ELSE Risks(sec, i - 1) \o sec[i].risks

\* the buy grades decided by the score alone
RecommendByScore(score, trend_status) ==
    IF score >= 75 THEN "STRONG_BUY"
    ELSE IF score >= 60 THEN "BUY"
    ELSE IF score >= 45 THEN "HOLD"
    ELSE IF score >= 30 THEN "WAIT"
    ELSE IF trend_status \in {"BEAR", "STRONG_BEAR"} THEN "STRONG_SELL"
    ELSE "SELL"

\* The recommendation from the score and the trend label.
Recommend(score, trend_status) ==
    IF score >= 75 /\ trend_status \in {"STRONG_BULL", "BULL"} THEN "STRONG_BUY"
    ELSE IF score >= 60 /\ trend_status \in {"STRONG_BULL", "BULL", "WEAK_BULL"} THEN "BUY"
    ELSE IF score >= 45 THEN "HOLD"
    ELSE IF score >= 30 THEN "WAIT"
    ELSE IF trend_status \in {"BEAR", "STRONG_BEAR"} THEN "STRONG_SELL"
    ELSE "SELL"

\* w: self._weights
_generate_signal(w, result) ==
    LET sec == Sections(result)
        score == SumScores(sec, w, DEFAULT_WEIGHTS, Len(sec))
    IN  [result EXCEPT !.signal_score = score,
                       !.signal_reasons = Reasons(sec, Len(sec)),
                       !.risk_factors = Risks(sec, Len(sec)),
                       !.buy_signal = Recommend(score, result.trend_status)]

(***************************************************************************)
(* The constructor and analyze.                                            *)
(***************************************************************************)
RECURSIVE SeqSum(_)
SeqSum(q) == IF q = <<>> THEN 0 ELSE Head(q) + SeqSum(Tail(q))

\* the fallback taken only when both tests fail: "and" for "or"
InitWeightsBothTests(score_weights) ==
    LET raw == IF score_weights # None THEN score_weights.items ELSE DEFAULT_WEIGHTS
    IN  IF Len(raw) # 8 /\ SeqSum(raw) # 100 THEN DEFAULT_WEIGHTS ELSE raw

\* __init__: the value of self._weights for the argument score_weights
InitWeights(score_weights) ==
    LET raw == IF score_weights # None THEN score_weights.items ELSE DEFAULT_WEIGHTS
    IN  IF Len(raw) # 8 \/ SeqSum(raw) # 100 THEN DEFAULT_WEIGHTS ELSE raw

\* df is None or df.empty or len(df) < 20
Insufficient(df) ==
    IF df = None THEN TRUE ELSE Len(df.rows) = 0 \/ Len(df.rows) < 20

\* the note put among the reasons in place of the risk factors
InsufficientDataAsReason(result) ==
    [result EXCEPT !.signal_reasons =
         Append(@, Entry(0, <<"insufficient data, analysis not possible">>))]

\* the early return: result.risk_factors.append(...)
InsufficientData(result) ==
    [result EXCEPT !.risk_factors =
         Append(@, Entry(0, <<"insufficient data, analysis not possible">>))]

\* the calculators, the latest bar and the eight classifiers on the sorted
\* copy, in the order of the code: each step takes the finished result of the
\* step before it (the bound r)
\* the frame after the calculators: the indicator columns, each a function
\* of the row number
IndicatorTable(df) ==
    LET column(Value(_)) == [i \in 1..Len(df) |-> Value(i)]
    IN  _calculate_macd(df) @@ _calculate_kdj(df) @@
        [MA5 |-> column(LAMBDA i : MA(df, 5, i)),
         MA10 |-> column(LAMBDA i : MA(df, 10, i)),
         MA20 |-> column(LAMBDA i : MA(df, 20, i)),
         MA60 |-> column(LAMBDA i : MA60(df, i)),
         RSI_6 |-> column(LAMBDA i : RSI(df, RSI_SHORT, i)),
         RSI_12 |-> column(LAMBDA i : RSI(df, RSI_MID, i)),
         RSI_24 |-> column(LAMBDA i : RSI(df, RSI_LONG, i)),
         BOLL_UPPER |-> column(LAMBDA i : BOLL_UPPER(df, i)),
         BOLL_MID |-> column(LAMBDA i : BOLL_MID(df, i)),
         BOLL_LOWER |-> column(LAMBDA i : BOLL_LOWER(df, i)),
         OBV |-> column(LAMBDA i : OBV(df, i))]

Classify(sorted, result) ==
    LET n == Len(sorted)
        r0 == [result EXCEPT !.current_price = FracInt(sorted[n].close),
                             !.ma5 = MA(sorted, 5, n),
                             !.ma10 = MA(sorted, 10, n),
                             !.ma20 = MA(sorted, 20, n),
                             !.ma60 = MA60(sorted, n)]
        r1 == {_analyze_trend(sorted, r) : r \in {r0}}
        r2 == {_calculate_bias(r) : r \in r1}
        r3 == {_analyze_volume(sorted, r) : r \in r2}
        r4 == {_analyze_support_resistance(sorted, r) : r \in r3}
        r5 == {_analyze_macd(sorted, macd, r) : r \in r4, macd \in {_calculate_macd(sorted)}}
        r6 == {_analyze_rsi(sorted, r) : r \in r5}
        r7 == {_analyze_kdj(sorted, kdj, r) : r \in r6, kdj \in {_calculate_kdj(sorted)}}
        r8 == {_analyze_boll(sorted, r) : r \in r7}
    IN  CHOOSE r \in r8 : TRUE

\* analyze(df, code) on an engine with self._weights = w: the returned result
analyze(w, df, code) ==
    LET result == TrendAnalysisResult(code)
    IN  IF Insufficient(df)
        THEN InsufficientData(result)
        ELSE CHOOSE out \in {_generate_signal(w, r) :
                                 r \in {Classify(sort_values(df.rows), result)}} : TRUE

(***************************************************************************)
(* The state machine: one engine and its caller.                           *)
(*   given     the score_weights argument the engine was constructed with  *)
(*   _weights  the engine's field self._weights                            *)
(*   frame     the frame the caller passed to the last analyze call        *)
(*   returned  the result the last analyze call returned (None before the  *)
(*             first call on the engine)                                   *)
(*   appended  the number of rows the caller added since the first call    *)
(*   calls     the analyze calls of concurrent callers (used by SpecConc)   *)
(*   heap      the result objects those calls allocated (used by SpecConc)  *)
(* The caller's first call passes a frame of identical rows (close 100,    *)
(* volume 1000) or no frame; each later call passes the previous frame     *)
(* with one more trading day, the move of which is one of Steps: it opens  *)
(* at the previous close and trades one point beyond open and close.       *)
(***************************************************************************)
VARIABLES given, _weights, frame, returned, appended, calls, heap

vars == <<given, _weights, frame, returned, appended, calls, heap>>

MaxTail == 3

CODE == "600519"

WeightInputs ==
    {None,
     List(<<50, 50>>),
     List(<<30, 20, 10, 10, 10, 5, 5, 0>>),
     List(<<60, 0, 5, 5, 10, 10, 5, 5>>),
     List(<<100, 0, 0, 0, 0, 0, 0, 0>>),
     List(<<128, -28, 0, 0, 0, 0, 0, 0>>)}

FlatRow(t) == Row(t, 100, 100, 100, 100, 1000)

Flat(n) == <<>> \o [t \in 1..n |-> FlatRow(t)]

Reverse(q) == <<>> \o [k \in 1..Len(q) |-> q[Len(q) + 1 - k]]

\* the frames of a first call; the last is in descending date order
BaseFrames ==
    {None, DataFrame(<<>>), DataFrame(Flat(18)), DataFrame(Flat(23)),
     DataFrame(Flat(26)), DataFrame(Reverse(Flat(26)))}

\* a trading day: the move of the close and the volume
Steps == {[d |-> 6, v |-> 3000], [d |-> 1, v |-> 500],
          [d |-> -1, v |-> 500], [d |-> -6, v |-> 3000]}

Descending(rows) == Len(rows) > 1 /\ rows[1].date > rows[Len(rows)].date

\* the caller's frame with the next trading day added
Extend(rows, step) ==
    LET desc == Descending(rows)
        last == IF rows = <<>> THEN FlatRow(0)
                ELSE IF desc THEN rows[1] ELSE rows[Len(rows)]
        c == last.close + step.d
        new == Row(last.date + 1, last.close, MaxOf(last.close, c) + 1,
                   MinOf(last.close, c) - 1, c, step.v)
    IN  IF desc THEN <<new>> \o rows ELSE Append(rows, new)

Init ==
    /\ given \in WeightInputs
    /\ _weights = InitWeights(given)
    /\ frame = None
    /\ returned = None
    /\ appended = 0
    /\ calls = <<>>
    /\ heap = <<>>

\* StockTrendAnalyzer(score_weights): a new engine replaces the old one
Construct(score_weights) ==
    /\ given' = score_weights
    /\ _weights' = InitWeights(score_weights)
    /\ frame' = None
    /\ returned' = None
    /\ appended' = 0
    /\ UNCHANGED <<calls, heap>>

\* the first analyze(df, code) on the engine
Analyze(df) ==
    /\ returned = None
    /\ frame' = df
    /\ returned' = analyze(_weights, df, CODE)
    /\ appended' = 0
    /\ UNCHANGED <<given, _weights, calls, heap>>

\* analyze(df, code) with the previous frame and one more trading day
AnalyzeNext(step) ==
    /\ returned # None
    /\ frame # None
    /\ appended < MaxTail
    /\ LET df == DataFrame(Extend(frame.rows, step))
       IN  /\ frame' = df
           /\ returned' = analyze(_weights, df, CODE)
    /\ appended' = appended + 1
    /\ UNCHANGED <<given, _weights, calls, heap>>

Next ==
    \/ \E score_weights \in WeightInputs : Construct(score_weights)
    \/ \E df \in BaseFrames : Analyze(df)
    \/ \E step \in Steps : AnalyzeNext(step)

Spec == Init /\ [][Next]_vars


(***************************************************************************)
(* Properties of the engine and its caller (Spec).                         *)
(***************************************************************************)
\* the last call ran the full analysis
Full == returned # None /\ ~Insufficient(frame)

\* eight non-negative integers that sum to 100
Accepted(w) == Len(w) = 8 /\ SeqSum(w) = 100 /\ \A i \in 1..8 : w[i] >= 0

\* C1: on an engine whose weight vector is accepted (eight non-negative
\* integers summing to 100) the signal_score of every returned result is an
\* integer from 0 to 100.
C1_ScoreInRange ==
    (returned # None /\ Accepted(_weights)) => returned.signal_score \in 0..100

C1_Witness ==
    /\ Full
    /\ Accepted(_weights)
    /\ _weights # DEFAULT_WEIGHTS
    /\ returned.signal_score = 100

\* a score_weights list whose length is not 8 or whose sum is not 100
Rejected(score_weights) ==
    /\ score_weights # None
    /\ Len(score_weights.items) # 8 \/ SeqSum(score_weights.items) # 100

\* C2: an engine constructed with a list whose length is not 8 or whose sum
\* is not 100 holds the default weights, and its analyze returns for every
\* series exactly the result of an engine constructed with no score_weights.
C2_InvalidWeightsFallBack ==
    Rejected(given) =>
        /\ _weights = InitWeights(None)
        /\ returned # None => returned = analyze(InitWeights(None), frame, CODE)

C2_Witness ==
    /\ Rejected(given)
    /\ Len(given.items) = 8
    /\ Full
    /\ returned.signal_score > 0

\* C3: the weights the engine uses are never negative (a list of length 8
\* and sum 100 with a negative entry is replaced by the default weights).
C3_WeightsNonNegative == \A i \in 1..Len(_weights) : _weights[i] >= 0

\* C4: for a missing, an empty or a shorter-than-20-bar series analyze
\* returns the default result: score 0, recommendation WAIT, no reasons,
\* exactly one risk factor, and every other field at its default value.
C4_InsufficientDataDefault ==
    (returned # None /\ Insufficient(frame)) =>
        /\ returned.signal_score = 0
        /\ returned.buy_signal = "WAIT"
        /\ returned.signal_reasons = <<>>
        /\ Len(returned.risk_factors) = 1
        /\ [returned EXCEPT !.risk_factors = <<>>] = TrendAnalysisResult(CODE)

C4_Witness == returned # None /\ frame # None /\ Len(frame.rows) = 19

BullGrades == {"STRONG_BULL", "BULL", "WEAK_BULL"}

\* C5: the recommendation is the first match of: score >= 75 and trend
\* STRONG_BULL or BULL -> STRONG_BUY; score >= 60 and a bull grade -> BUY;
\* score >= 45 -> HOLD; score >= 30 -> WAIT; trend BEAR or STRONG_BEAR ->
\* STRONG_SELL; else SELL.  So a buy grade is never given outside the bull
\* grades and a sell grade never at a score of 30 or more.
C5_RecommendationTopDown ==
    Full =>
        LET score == returned.signal_score
            trend == returned.trend_status
            buy == returned.buy_signal
            first == score >= 75 /\ trend \in {"STRONG_BULL", "BULL"}
            second == ~first /\ score >= 60 /\ trend \in BullGrades
            third == ~first /\ ~second /\ score >= 45
            fourth == ~first /\ ~second /\ ~third /\ score >= 30
            fifth == ~first /\ ~second /\ ~third /\ ~fourth
                     /\ trend \in {"BEAR", "STRONG_BEAR"}
            sixth == ~first /\ ~second /\ ~third /\ ~fourth /\ ~fifth
        IN  /\ first => buy = "STRONG_BUY"
            /\ second => buy = "BUY"
            /\ third => buy = "HOLD"
            /\ fourth => buy = "WAIT"
            /\ fifth => buy = "STRONG_SELL"
            /\ sixth => buy = "SELL"
            /\ buy \in {"STRONG_BUY", "BUY"} => trend \in BullGrades
            /\ buy \in {"STRONG_SELL", "SELL"} => score < 30

C5_Witness ==
    /\ Full
    /\ returned.signal_score >= 60
    /\ returned.trend_status \in {"CONSOLIDATION", "BEAR"}
    /\ returned.buy_signal = "HOLD"

\* the integer nearest to n / d (d > 0), the even one of two equally near
HalfEven(n, d) ==
    CHOOSE k \in ((n \div d) - 1)..((n \div d) + 1) :
        /\ 2 * Abs(n - k * d) <= d
        /\ 2 * Abs(n - k * d) = d => k % 2 = 0

Sum8(f) == f[1] + f[2] + f[3] + f[4] + f[5] + f[6] + f[7] + f[8]

\* C6: the composite score is the sum over the eight factors of
\* round(raw * weight / default weight); with the default weights every
\* scaled score is the raw score and the composite is the sum of the raw
\* scores.
C6_CompositeIsSumOfScaled ==
    Full =>
        LET sec == Sections(returned)
            scaled == [i \in 1..8 |->
                          HalfEven(sec[i].raw * _weights[i], DEFAULT_WEIGHTS[i])]
        IN  /\ returned.signal_score = Sum8(scaled)
            /\ _weights = DEFAULT_WEIGHTS =>
                   /\ \A i \in 1..8 : scaled[i] = sec[i].raw
                   /\ returned.signal_score = Sum8([i \in 1..8 |-> sec[i].raw])

\* the support score 4 at weight 5 and default weight 8: 2.5, rounded to 2
C6_Witness ==
    /\ Full
    /\ _weights[4] = 5
    /\ Sections(returned)[4].raw = 4

\* the classifiers that put an entry into the list
Contributors(list) == {list[i].by : i \in 1..Len(list)}

InOrder(list) == \A i, j \in 1..Len(list) : i < j => list[i].by <= list[j].by

\* C7: in the result of a full analysis no reason and no risk factor of a
\* later classifier precedes one of an earlier classifier, the classifiers
\* taken in the order trend, bias, volume, support, MACD, RSI, KDJ, Bollinger.
C7_ListsInClassifierOrder ==
    Full => InOrder(returned.signal_reasons) /\ InOrder(returned.risk_factors)

C7_Witness ==
    /\ Full
    /\ Cardinality(Contributors(returned.signal_reasons)) >= 4
    /\ Cardinality(Contributors(returned.risk_factors)) >= 3

\* C8: the map of to_dict() has a key for every field of the result, the
\* support level list and the resistance level list among them.
C8_ToDictHasEveryField ==
    returned # None => DOMAIN returned \subseteq DOMAIN to_dict(returned)

Golden == {"GOLDEN_CROSS", "GOLDEN_CROSS_ZERO"}

\* the sign of DIF - DEA on the latest bar of an analysed series
Gap(result) == RatSign(RatSub(result.macd_dif, result.macd_dea))

\* the caller adds bar t to a series whose bar t-1 had its MACD analysed
NextBar ==
    /\ returned # None
    /\ frame # None
    /\ Len(frame.rows) >= MACD_SLOW
    /\ appended' = appended + 1

\* C10: analysing a series bar after bar, a golden cross is reported at bar
\* t only if DIF - DEA <= 0 at bar t-1 and > 0 at bar t, so on no later bar
\* of a run of bars with DIF above DEA; a death cross only if DIF - DEA >= 0
\* at bar t-1 and < 0 at bar t; and never both crosses on one bar.
C10_CrossIsEdgeTriggered ==
    [][NextBar =>
          LET before == Gap(returned)
              now == Gap(returned')
              status == returned'.macd_status
          IN  /\ status \in Golden => before <= 0 /\ now > 0
              /\ (before > 0 /\ now > 0) => status \notin Golden
              /\ status = "DEATH_CROSS" => before >= 0 /\ now < 0
              /\ (before < 0 /\ now < 0) => status # "DEATH_CROSS"
              /\ ~(GoldenCross(before, now) /\ DeathCross(before, now))]_vars

C10_Witness ==
    /\ Full
    /\ appended >= 2
    /\ Len(frame.rows) >= MACD_SLOW + 2
    /\ returned.macd_status \in Golden

(***************************************************************************)
(* One engine shared by concurrent callers.  Each call of analyze has its  *)
(* own locals (df, the sorted copy, the reference to its result object);   *)
(* the calls share the engine (self._weights) and the heap of result       *)
(* objects.  A call runs in steps between which the other calls may run:   *)
(*   new       result = TrendAnalysisResult(code=code)                     *)
(*   check     the data test: the early return, or the sort into a copy    *)
(*   classify  the calculators and the eight classifiers (they read the    *)
(*             copy and write the result object)                           *)
(*   signal    _generate_signal (reads self._weights, writes the result)   *)
(*   done      the call has returned its result object                     *)
(***************************************************************************)
MaxCalls == 2

\* the codes of the first, second, ... call
Codes == <<"600519", "000001", "300750">>

ConcWeights == {None, List(<<60, 0, 5, 5, 10, 10, 5, 5>>)}

ConcFrames ==
    {None, DataFrame(Flat(18)),
     DataFrame(Extend(Extend(Reverse(Flat(26)), [d |-> -6, v |-> 3000]),
                      [d |-> 1, v |-> 500]))}

\* one result object for every call: the call writes the object of the engine
Cached(objects) == 1

\* TrendAnalysisResult(code=code) makes a new object: its place in the heap
Fresh(objects) == Len(objects) + 1

Put(objects, ref, obj) ==
    IF ref = Len(objects) + 1 THEN Append(objects, obj)
    ELSE [objects EXCEPT ![ref] = obj]

InitConc ==
    /\ given \in ConcWeights
    /\ _weights = InitWeights(given)
    /\ frame = None
    /\ returned = None
    /\ appended = 0
    /\ calls = <<>>
    /\ heap = <<>>

\* a caller enters analyze(df, code)
Call(df) ==
    /\ Len(calls) < MaxCalls
    /\ calls' = Append(calls, [pc |-> "new", passed |-> df, df |-> df, sorted |-> None,
                               code |-> Codes[Len(calls) + 1], result |-> 0])
    /\ UNCHANGED <<given, _weights, frame, returned, appended, heap>>

\* result = TrendAnalysisResult(code=code)
New(i) ==
    /\ calls[i].pc = "new"
    /\ LET ref == Fresh(heap)
       IN  /\ heap' = Put(heap, ref, TrendAnalysisResult(calls[i].code))
           /\ calls' = [calls EXCEPT ![i].result = ref, ![i].pc = "check"]
    /\ UNCHANGED <<given, _weights, frame, returned, appended>>

\* the data test fails: the note is appended and the call returns
CheckInsufficient(i) ==
    /\ calls[i].pc = "check"
    /\ Insufficient(calls[i].df)
    /\ heap' = [heap EXCEPT ![calls[i].result] = InsufficientData(@)]
    /\ calls' = [calls EXCEPT ![i].pc = "done"]
    /\ UNCHANGED <<given, _weights, frame, returned, appended>>

\* df = df.sort_values('date').reset_index(drop=True): a copy, local to the call
CheckSort(i) ==
    /\ calls[i].pc = "check"
    /\ ~Insufficient(calls[i].df)
    /\ calls' = [calls EXCEPT ![i].sorted = sort_values(calls[i].df.rows),
                              ![i].pc = "classify"]
    /\ UNCHANGED <<given, _weights, frame, returned, appended, heap>>

\* the calculators and self._analyze_trend(df, result) ... self._analyze_boll(df, result)
ClassifyStep(i) ==
    /\ calls[i].pc = "classify"
    /\ LET ref == calls[i].result
           result == heap[ref]
           sorted == calls[i].sorted
       IN  heap' = [heap EXCEPT ![ref] = Classify(sorted, result)]
    /\ calls' = [calls EXCEPT ![i].pc = "signal"]
    /\ UNCHANGED <<given, _weights, frame, returned, appended>>

\* self._generate_signal(result); return result
SignalStep(i) ==
    /\ calls[i].pc = "signal"
    /\ LET ref == calls[i].result
           result == heap[ref]
       IN  heap' = [heap EXCEPT ![ref] = _generate_signal(_weights, result)]
    /\ calls' = [calls EXCEPT ![i].pc = "done"]
    /\ UNCHANGED <<given, _weights, frame, returned, appended>>

NextConc ==
    \/ \E df \in ConcFrames : Call(df)
    \/ \E i \in 1..Len(calls) : New(i)
    \/ \E i \in 1..Len(calls) : CheckInsufficient(i)
    \/ \E i \in 1..Len(calls) : CheckSort(i)
    \/ \E i \in 1..Len(calls) : ClassifyStep(i)
    \/ \E i \in 1..Len(calls) : SignalStep(i)

SpecConc == InitConc /\ [][NextConc]_vars

(***************************************************************************)
(* Properties of the shared engine (SpecConc).                             *)
(***************************************************************************)
\* C9: under every interleaving of the calls on one engine each call
\* returns the result it returns alone: no call writes self._weights, no
\* call changes the frame its caller passed, and every call has a result
\* object of its own.
C9_ConcurrentCallsIndependent ==
    /\ _weights = InitWeights(given)
    /\ \A i \in 1..Len(calls) :
           /\ calls[i].df = calls[i].passed
           /\ calls[i].pc = "done" =>
                  heap[calls[i].result] = analyze(_weights, calls[i].df, calls[i].code)
           /\ \A j \in 1..Len(calls) :
                  (i # j /\ calls[i].result # 0) => calls[i].result # calls[j].result

\* the second call has returned while the first is still before its signal step
C9_Witness ==
    /\ Len(calls) >= 2
    /\ calls[1].pc = "signal"
    /\ calls[2].pc = "done"
    /\ ~Insufficient(calls[2].df)

(***************************************************************************)
(* One engine with the default weights and a caller that follows a market  *)
(* bar by bar (SpecSeries).  The first call passes the history of one of   *)
(* Markets; each later call passes the previous frame with one more bar,   *)
(* which is one of the bars the market allows on that day.  A bar is the   *)
(* move d of the close, the volume v and the wicks up and dn beyond open   *)
(* and close; it opens at the previous close.                              *)
(***************************************************************************)
MaxBars == 3

Bar(d, v, up, dn) == [d |-> d, v |-> v, up |-> up, dn |-> dn]

AddBar(rows, bar) ==
    LET last == rows[Len(rows)]
        c == last.close + bar.d
    IN  Append(rows, Row(last.date + 1, last.close, MaxOf(last.close, c) + bar.up,
                         MinOf(last.close, c) - bar.dn, c, bar.v))

\* n identical rows that differ only in the date
Same(n, o, h, l, c, v) == <<>> \o [t \in 1..n |-> Row(t, o, h, l, c, v)]

RECURSIVE Grow(_, _, _)
Grow(rows, bar, k) == IF k = 0 THEN rows ELSE Grow(AddBar(rows, bar), bar, k - 1)

\* the same bars allowed on every day
Daily(bars) == <<bars, bars, bars, bars, bars>>

FlatBars == {Bar(0, 1000, 0, 0), Bar(0, 3000, 1, 1), Bar(0, 0, 0, 0)}

UpBars == {Bar(2, 1000, 1, 1), Bar(4, 3000, 1, 1), Bar(-4, 3000, 1, 1)}

DownBars == {Bar(-2, 1000, 1, 1), Bar(-4, 3000, 1, 1), Bar(3, 3000, 1, 1)}

Quiet == {Bar(0, 1000, 0, 0)}

\* a constant close for 58 days
ConstantMarket == [base |-> Same(58, 100, 100, 100, 100, 1000), bars |-> Daily(FlatBars)]

\* twenty identical days: no range, a range, no volume
IdenticalMarkets ==
    {[base |-> Same(20, 100, 100, 100, 100, 1000), bars |-> Daily(FlatBars)],
     [base |-> Same(20, 100, 102, 99, 100, 1000), bars |-> Daily(FlatBars)],
     [base |-> Same(20, 100, 100, 100, 100, 0),
      bars |-> <<FlatBars \cup {Bar(2, 1000, 1, 1)}, FlatBars, FlatBars, FlatBars, FlatBars>>]}

\* 24 days of a close that rises by 2 a day from 100
RisingMarket ==
    [base |-> Grow(Same(1, 100, 101, 99, 100, 1000), Bar(2, 1000, 1, 1), 23),
     bars |-> Daily(UpBars)]

\* 24 days of a close that falls by 2 a day from 200
FallingMarket ==
    [base |-> Grow(Same(1, 200, 201, 199, 200, 1000), Bar(-2, 1000, 1, 1), 23),
     bars |-> Daily(DownBars)]

\* 25 flat days at 400, a fall of 351, then a rise that takes DIF to
\* exactly 0 (622) or to just below 0 (600), then a further rise
SlumpMarket ==
    [base |-> AddBar(Same(25, 400, 400, 400, 400, 1000), Bar(-351, 3000, 0, 0)),
     bars |-> <<{Bar(622, 3000, 2, 0), Bar(600, 3000, 0, 0)}, {Bar(22, 1000, 2, 0)},
                Quiet, Quiet, Quiet>>]

\* the mirror image: a rise of 351, then a fall
SurgeMarket ==
    [base |-> AddBar(Same(25, 400, 400, 400, 400, 1000), Bar(351, 3000, 0, 0)),
     bars |-> <<{Bar(-622, 3000, 0, 2), Bar(-600, 3000, 0, 0)}, {Bar(-22, 1000, 0, 2)},
                Quiet, Quiet, Quiet>>]

\* 25 flat days at 100, a rise of 60 and four flat days at the new price
PlateauMarket ==
    [base |-> Grow(AddBar(Same(25, 100, 100, 100, 100, 1000), Bar(60, 3000, 0, 0)),
                   Bar(0, 1000, 0, 0), 4),
     bars |-> Daily(Quiet)]

\* 25 flat days at 100, one day at 40 (DipMarket) or at 160 (SpikeMarket),
\* and four flat days back at 100
DipMarket ==
    [base |-> Grow(AddBar(AddBar(Same(25, 100, 100, 100, 100, 1000), Bar(-60, 3000, 0, 0)),
                          Bar(60, 3000, 0, 0)),
                   Bar(0, 1000, 0, 0), 3),
     bars |-> Daily(Quiet)]

SpikeMarket ==
    [base |-> Grow(AddBar(AddBar(Same(25, 100, 100, 100, 100, 1000), Bar(60, 3000, 0, 0)),
                          Bar(-60, 3000, 0, 0)),
                   Bar(0, 1000, 0, 0), 3),
     bars |-> Daily(Quiet)]

Markets ==
    {ConstantMarket, RisingMarket, FallingMarket, SlumpMarket, SurgeMarket, PlateauMarket,
     DipMarket, SpikeMarket}
        \cup IdenticalMarkets

\* the frame is the history of the market and the bars added since
Follows(market) ==
    /\ Len(frame.rows) = Len(market.base) + appended
    /\ SubSeq(frame.rows, 1, Len(market.base)) = market.base

InitSeries ==
    /\ given = None
    /\ _weights = InitWeights(None)
    /\ frame = None
    /\ returned = None
    /\ appended = 0
    /\ calls = <<>>
    /\ heap = <<>>

\* the first analyze(df, code): the history of a market
Open(market) ==
    /\ returned = None
    /\ LET df == DataFrame(market.base)
       IN  /\ frame' = df
           /\ returned' = analyze(_weights, df, CODE)
    /\ appended' = 0
    /\ UNCHANGED <<given, _weights, calls, heap>>

\* analyze(df, code) with the previous frame and the next bar of the market
Follow(market, bar) ==
    /\ returned # None
    /\ appended < MaxBars
    /\ appended < Len(market.bars)
    /\ Follows(market)
    /\ bar \in market.bars[appended + 1]
    /\ LET df == DataFrame(AddBar(frame.rows, bar))
       IN  /\ frame' = df
           /\ returned' = analyze(_weights, df, CODE)
    /\ appended' = appended + 1
    /\ UNCHANGED <<given, _weights, calls, heap>>

AllBars == FlatBars \cup UpBars \cup DownBars \cup UNION {market.bars[1] \cup market.bars[2] : market \in Markets}

NextSeries ==
    \/ \E market \in Markets : Open(market)
    \/ \E market \in Markets : \E bar \in AllBars : Follow(market, bar)

SpecSeries == InitSeries /\ [][NextSeries]_vars

(***************************************************************************)
(* Properties of the analysis of long series (SpecSeries).                 *)
(***************************************************************************)
\* every row of the frame closes at the price of the first row
ConstantClose(rows) == \A i \in 1..Len(rows) : rows[i].close = rows[1].close

\* C11: for a series of at least 60 bars whose closing price never changes,
\* ma5, ma10, ma20 and ma60 all equal the current price, the three bias
\* values are zero and the trend status is CONSOLIDATION.
C11_ConstantSeriesIsFlat ==
    (Full /\ Len(frame.rows) >= 60 /\ ConstantClose(frame.rows)) =>
        /\ returned.ma5 = returned.current_price
        /\ returned.ma10 = returned.current_price
        /\ returned.ma20 = returned.current_price
        /\ returned.ma60 = returned.current_price
        /\ returned.bias_ma5 = Zero
        /\ returned.bias_ma10 = Zero
        /\ returned.bias_ma20 = Zero
        /\ returned.trend_status = "CONSOLIDATION"

C11_Witness ==
    /\ Full
    /\ Len(frame.rows) >= 60
    /\ ConstantClose(frame.rows)
    /\ returned.current_price = FracInt(frame.rows[1].close)
    /\ \E i \in 1..Len(frame.rows) : frame.rows[i].high > frame.rows[i].close

\* the rows differ only in the date
IdenticalRows(rows) ==
    \A i \in 1..Len(rows) : [rows[i] EXCEPT !.date = rows[1].date] = rows[1]

\* C12: for a series of exactly 20 identical OHLCV rows analyze() returns a
\* result with volume_status NORMAL, ma5 = ma10 = ma20 = close, the three
\* bias values zero, a Bollinger band of width zero (boll_upper = boll_lower
\* = boll_mid) and boll_position zero.
C12_TwentyIdenticalRows ==
    (returned # None /\ frame # None /\ Len(frame.rows) = 20 /\ IdenticalRows(frame.rows)) =>
        /\ returned.volume_status = "NORMAL"
        /\ returned.ma5 = FracInt(frame.rows[20].close)
        /\ returned.ma10 = returned.ma5
        /\ returned.ma20 = returned.ma5
        /\ returned.bias_ma5 = Zero
        /\ returned.bias_ma10 = Zero
        /\ returned.bias_ma20 = Zero
        /\ returned.boll_upper = SurdOfFrac(returned.boll_mid)
        /\ returned.boll_lower = SurdOfFrac(returned.boll_mid)
        /\ returned.boll_position = SurdOfFrac(Zero)

\* every bar closes above the bar before it
StrictlyIncreasing(rows) == \A i \in 2..Len(rows) : rows[i].close > rows[i - 1].close

\* C13: for a series of at least 26 bars whose close rises on every bar,
\* rsi_6 = rsi_12 = rsi_24 = 100, macd_dif > 0, macd_dea > 0 and the trend
\* status is BULL or STRONG_BULL.
C13_RisingSeries ==
    (Full /\ Len(frame.rows) >= 26 /\ StrictlyIncreasing(frame.rows)) =>
        /\ returned.rsi_6 = FracInt(100)
        /\ returned.rsi_12 = FracInt(100)
        /\ returned.rsi_24 = FracInt(100)
        /\ RatSign(returned.macd_dif) > 0
        /\ RatSign(returned.macd_dea) > 0
        /\ returned.trend_status \in {"BULL", "STRONG_BULL"}

C13_Witness ==
    /\ Full
    /\ Len(frame.rows) >= 27
    /\ StrictlyIncreasing(frame.rows)
    /\ returned.rsi_24 = FracInt(100)
    /\ \E i \in 2..Len(frame.rows) : frame.rows[i].close = frame.rows[i - 1].close + 4

\* the RSI of the window of the given length, as the result reports it
RsiOf(result, period) ==
    IF period = RSI_SHORT THEN result.rsi_6
    ELSE IF period = RSI_MID THEN result.rsi_12
    ELSE result.rsi_24

\* no bar of the last `period` bars closes below (above) the bar before it
NoFall(rows, period) ==
    \A j \in (Len(rows) - period + 1)..Len(rows) : j > 1 => rows[j].close >= rows[j - 1].close

NoRise(rows, period) ==
    \A j \in (Len(rows) - period + 1)..Len(rows) : j > 1 => rows[j].close <= rows[j - 1].close

\* the highs and lows of the last KDJ_N bars are one price
ZeroRange(rows) ==
    /\ Len(rows) >= KDJ_N
    /\ \A j \in (Len(rows) - KDJ_N + 1)..Len(rows) :
          rows[j].high = rows[Len(rows)].low /\ rows[j].low = rows[Len(rows)].low

\* a number, not the NaN of a column
Defined(x) == x # NaN /\ x # None

\* the analysis of a series long enough for the RSI classifier
Analysed(df, result) == result # None /\ df # None /\ Len(df.rows) >= RSI_LONG

\* C14 as stated: whenever the average loss of an RSI window is zero, the RSI
\* of that window is 50, whether the average gain is zero or positive.
C14_ZeroLossGivesFifty ==
    Analysed(frame, returned) =>
        \A period \in {RSI_SHORT, RSI_MID, RSI_LONG} :
            NoFall(frame.rows, period) => RsiOf(returned, period) = FracInt(50)

\* C14 amended: whenever the average loss of an RSI window is zero, the RSI
\* of that window is 50 if the average gain is zero too and 100 if it is
\* positive; whenever the 9-bar high/low range is zero the RSV is 50, so that
\* K moves a third of the way from its previous value to 50; and the RSI and
\* KDJ values of the result are defined numbers.
C14_ZeroDenominators ==
    [][Analysed(frame', returned') =>
          /\ \A period \in {RSI_SHORT, RSI_MID, RSI_LONG} :
                NoFall(frame'.rows, period) =>
                    RsiOf(returned', period) =
                        IF NoRise(frame'.rows, period) THEN FracInt(50) ELSE FracInt(100)
          /\ (returned # None /\ ZeroRange(frame'.rows)) =>
                RatCmp(returned'.kdj_k, RatLin(1, RatInt(50), 2, returned.kdj_k, 3)) = 0
          /\ \A period \in {RSI_SHORT, RSI_MID, RSI_LONG} : Defined(RsiOf(returned', period))
          /\ Defined(returned'.kdj_k) /\ Defined(returned'.kdj_d) /\ Defined(returned'.kdj_j)]_vars

C14_Witness ==
    /\ Analysed(frame, returned)
    /\ appended >= 1
    /\ ZeroRange(frame.rows)
    /\ NoFall(frame.rows, RSI_LONG) /\ NoRise(frame.rows, RSI_LONG)
    /\ returned.rsi_24 = FracInt(50)

\* the MACD labels that name a direction or a cross: every member of MACDStatus
MacdDirectional ==
    {"GOLDEN_CROSS_ZERO", "GOLDEN_CROSS", "CROSSING_UP", "BULLISH",
     "BEARISH", "CROSSING_DOWN", "DEATH_CROSS"}

\* C15: for a series of at least 20 bars but fewer than 26 the MACD classifier
\* is skipped, and with fewer than 24 the RSI classifier: the signal string
\* is the insufficient-data text, the label is the neutral one and no
\* directional label, the raw sub-score is the default entry of the score
\* table (5 for MACD, 4 for RSI), and a score and a recommendation are
\* still produced.
C15_SkippedClassifierIsNeutral ==
    (Full /\ Len(frame.rows) < MACD_SLOW) =>
        /\ returned.macd_signal = "insufficient data"
        /\ returned.macd_status \notin MacdDirectional
        /\ MacdSection(returned).raw = 5
        /\ Len(frame.rows) < RSI_LONG =>
              /\ returned.rsi_signal = "insufficient data"
              /\ returned.rsi_status = "NEUTRAL"
              /\ RsiSection(returned).raw = 4
        /\ returned.signal_score \in 0..100
        /\ returned.buy_signal \in DOMAIN BuySignal

\* the first n rows of the columns of an indicator table
Prefix(table, columns, n) == [c \in columns |-> [i \in 1..n |-> table[c][i]]]

\* the frame holds a series that was analysed and one more bar after it
Extended == returned # None /\ frame # None /\ appended >= 1

\* the series before its last bar
Shorter(rows) == SubSeq(rows, 1, Len(rows) - 1)

\* the indicator columns but MA60
PrefixColumns ==
    {"MA5", "MA10", "MA20", "MACD_DIF", "MACD_DEA", "MACD_BAR", "RSI_6", "RSI_12", "RSI_24",
     "KDJ_K", "KDJ_D", "KDJ_J", "BOLL_UPPER", "BOLL_MID", "BOLL_LOWER", "OBV"}

\* C16 as stated: the value of every indicator column, MA60 among them, at
\* bar i of a series is its value at bar i of a longer series with the same
\* bars up to i.
C16_NoLookahead ==
    Extended =>
        LET n == Len(frame.rows) - 1
            columns == PrefixColumns \cup {"MA60"}
        IN  Prefix(IndicatorTable(frame.rows), columns, n)
                = Prefix(IndicatorTable(Shorter(frame.rows)), columns, n)

\* C16 amended: the value of every indicator column other than MA60 at bar i
\* of a series is its value at bar i of a longer series with the same bars
\* up to i, and so is the value of MA60 when both series have fewer than 60
\* bars or both have at least 60.
C16_NoLookaheadButMA60 ==
    Extended =>
        LET n == Len(frame.rows) - 1
            columns == IF (n >= 60) = (n + 1 >= 60) THEN PrefixColumns \cup {"MA60"}
                       ELSE PrefixColumns
        IN  Prefix(IndicatorTable(frame.rows), columns, n)
                = Prefix(IndicatorTable(Shorter(frame.rows)), columns, n)

C16_Witness ==
    /\ Full
    /\ appended >= 2
    /\ Len(frame.rows) >= MACD_SLOW
    /\ ~ConstantClose(frame.rows)
    /\ frame.rows[Len(frame.rows)].volume > 0

\* The label the priority list of the MACD states gives the last bar n of
\* the columns, "NONE" where no condition of the list holds.  The first entry
\* asks for a golden cross with DIF above zero (strict) or at or above zero.
MacdFirstMatch(macd, n, strict) ==
    LET dif == RatSign(macd.MACD_DIF[n])
        dea == RatSign(macd.MACD_DEA[n])
        prev_dif == RatSign(macd.MACD_DIF[n - 1])
        gap == RatCmp(macd.MACD_DIF[n], macd.MACD_DEA[n])
        prev_gap == RatCmp(macd.MACD_DIF[n - 1], macd.MACD_DEA[n - 1])
        golden == prev_gap <= 0 /\ gap > 0
    IN  IF golden /\ (IF strict THEN dif > 0 ELSE dif >= 0) THEN "GOLDEN_CROSS_ZERO"
        ELSE IF prev_dif <= 0 /\ dif > 0 THEN "CROSSING_UP"
        ELSE IF golden THEN "GOLDEN_CROSS"
        ELSE IF prev_gap >= 0 /\ gap < 0 THEN "DEATH_CROSS"
        ELSE IF prev_dif >= 0 /\ dif < 0 THEN "CROSSING_DOWN"
        ELSE IF dif > 0 /\ dea > 0 THEN "BULLISH"
        ELSE IF dif < 0 /\ dea < 0 THEN "BEARISH"
        ELSE "NONE"

\* the MACD classifier has run on the frame
MacdAnalysed == returned # None /\ frame # None /\ Len(frame.rows) >= MACD_SLOW

\* C17 as stated: for a series of at least 26 bars the MACD label is the
\* first match of: golden cross with DIF at or above zero, GOLDEN_CROSS_ZERO;
\* DIF crossing up through zero, CROSSING_UP; golden cross, GOLDEN_CROSS;
\* death cross, DEATH_CROSS; DIF crossing down through zero, CROSSING_DOWN;
\* DIF > 0 and DEA > 0, BULLISH; DIF < 0 and DEA < 0, BEARISH.
C17_MacdFirstMatchAtOrAboveZero ==
    MacdAnalysed =>
        \A want \in {MacdFirstMatch(_calculate_macd(frame.rows), Len(frame.rows), FALSE)} :
            want # "NONE" => returned.macd_status = want

\* C17 amended: the same list with the first entry asking for a golden
\* cross with DIF above zero (DIF > 0); a golden cross that leaves DIF at
\* exactly zero is a GOLDEN_CROSS.
C17_MacdFirstMatchAboveZero ==
    MacdAnalysed =>
        \A want \in {MacdFirstMatch(_calculate_macd(frame.rows), Len(frame.rows), TRUE)} :
            want # "NONE" => returned.macd_status = want

C17_Witness ==
    /\ MacdAnalysed
    /\ returned.macd_status = "GOLDEN_CROSS"
    /\ RatSign(returned.macd_dif) = 0
    /\ RatSign(returned.macd_dea) < 0

\* C18: when none of the MACD conditions holds on the last bar (no cross, no
\* zero crossing, not DIF > 0 and DEA > 0, not DIF < 0 and DEA < 0), the
\* MACD label is a neutral one, distinct from BULLISH, and its raw score is
\* the default 5 of the score table, not the 6 of BULLISH.
C18_NeutralMacdIsNotBullish ==
    MacdAnalysed =>
        \A want \in {MacdFirstMatch(_calculate_macd(frame.rows), Len(frame.rows), TRUE)} :
            want = "NONE" =>
                /\ returned.macd_status # "BULLISH"
                /\ MacdSection(returned).raw = 5

\* the Bollinger label of a result by the priority list upper break, upper
\* near, lower break, lower near, middle support, middle resistance, normal
BollUpperFirst(result) ==
    LET price == result.current_price
        upper == result.boll_upper
        lower == result.boll_lower
    IN  IF SurdCmpScaled(price, Frac(98, 100), upper) >= 0 THEN "UPPER_BREAK"
        ELSE IF SurdCmpScaled(price, Frac(96, 100), upper) >= 0 THEN "UPPER_NEAR"
        ELSE IF SurdCmpScaled(price, Frac(102, 100), lower) <= 0 THEN "LOWER_BREAK"
        ELSE IF SurdCmpScaled(price, Frac(104, 100), lower) <= 0 THEN "LOWER_NEAR"
        ELSE IF FracGe(price, result.boll_mid) /\ SurdCmpScaled(price, FracInt(1), upper) < 0
        THEN "MID_SUPPORT"
        ELSE IF FracLt(price, result.boll_mid) /\ SurdCmpScaled(price, FracInt(1), lower) > 0
        THEN "MID_RESISTANCE"
        ELSE "NORMAL"

\* C19: the Bollinger label is the first match of: breaking upper (price >=
\* upper * 0.98), near upper (price >= upper * 0.96), breaking lower (price
\* <= lower * 1.02), near lower (price <= lower * 1.04), above-mid support,
\* below-mid resistance, normal; so a price near the upper band and breaking
\* the lower band, but not breaking the upper band, is labelled UPPER_NEAR.
C19_BollUpperBeforeLower == Full => returned.boll_status = BollUpperFirst(returned)

\* K crosses D on the last bar n of the columns, upwards or downwards
KdjCross(kdj, n) ==
    LET gap == RatCmp(kdj.KDJ_K[n], kdj.KDJ_D[n])
        prev_gap == RatCmp(kdj.KDJ_K[n - 1], kdj.KDJ_D[n - 1])
    IN  (prev_gap <= 0 /\ gap > 0) \/ (prev_gap >= 0 /\ gap < 0)

\* the label the priority list of the KDJ states gives the last bar n
KdjFirstMatch(kdj, n) ==
    LET k == kdj.KDJ_K[n]
        d == kdj.KDJ_D[n]
        j == kdj.KDJ_J[n]
        gap == RatCmp(k, d)
        prev_gap == RatCmp(kdj.KDJ_K[n - 1], kdj.KDJ_D[n - 1])
        above(x, c) == RatCmp(x, RatInt(c)) > 0
        below(x, c) == RatCmp(x, RatInt(c)) < 0
    IN  IF above(j, 100) \/ (above(k, 80) /\ above(d, 80)) THEN "OVERBOUGHT"
        ELSE IF below(j, 0) \/ (below(k, 20) /\ below(d, 20)) THEN "OVERSOLD"
        ELSE IF prev_gap <= 0 /\ gap > 0 THEN "GOLDEN_CROSS"
        ELSE IF prev_gap >= 0 /\ gap < 0 THEN "DEATH_CROSS"
        ELSE IF gap > 0 THEN "BULLISH"
        ELSE IF gap < 0 THEN "BEARISH"
        ELSE "NEUTRAL"

\* C20: the KDJ label is the first match of: overbought (J > 100, or K > 80
\* and D > 80), oversold (J < 0, or K < 20 and D < 20), golden cross (K - D
\* <= 0 on the bar before and > 0 now), death cross (K - D >= 0 before and
\* < 0 now), bullish (K > D), bearish (K < D), neutral (K = D); so a cross on
\* an overbought or oversold bar is reported as OVERBOUGHT or OVERSOLD.
C20_KdjFirstMatch ==
    Full =>
        returned.kdj_status = KdjFirstMatch(_calculate_kdj(frame.rows), Len(frame.rows))

C20_Witness ==
    /\ Full
    /\ returned.kdj_status \in {"OVERBOUGHT", "OVERSOLD"}
    /\ KdjCross(_calculate_kdj(frame.rows), Len(frame.rows))

\* The trend label of a series by the rules of the trend classification,
\* the spread of the averages compared with the spread `lag` bars before the
\* latest bar.
TrendByRule(df, lag) ==
    LET n == Len(df)
        ma5 == MA(df, 5, n)
        ma10 == MA(df, 10, n)
        ma20 == MA(df, 20, n)
        bull(i) == Pct(FracSub(MA(df, 5, i), MA(df, 20, i)), MA(df, 20, i))
        bear(i) == Pct(FracSub(MA(df, 20, i), MA(df, 5, i)), MA(df, 5, i))
    IN  IF FracGt(ma5, ma10) /\ FracGt(ma10, ma20)
        THEN IF FracLt(bull(n - lag), bull(n)) /\ FracGt(bull(n), FracInt(5))
             THEN "STRONG_BULL" ELSE "BULL"
        ELSE IF FracLt(ma5, ma10) /\ FracLt(ma10, ma20)
        THEN IF FracLt(bear(n - lag), bear(n)) /\ FracGt(bear(n), FracInt(5))
             THEN "STRONG_BEAR" ELSE "BEAR"
        ELSE IF FracGt(ma5, ma10) /\ FracLe(ma10, ma20) THEN "WEAK_BULL"
        ELSE IF FracLt(ma5, ma10) /\ FracGe(ma10, ma20) THEN "WEAK_BEAR"
        ELSE "CONSOLIDATION"

\* the trend strength that goes with a trend label
StrengthOf ==
    [STRONG_BULL |-> 90, BULL |-> 75, WEAK_BULL |-> 55, CONSOLIDATION |-> 50,
     WEAK_BEAR |-> 40, BEAR |-> 25, STRONG_BEAR |-> 10]

\* the series has its 20-bar average at the bar five bars before the latest
SpreadsDefined == Full /\ Len(frame.rows) >= 25

\* C21: the trend label follows from the latest MA5, MA10, MA20: with MA5 >
\* MA10 > MA20 it is STRONG_BULL exactly when the spread (MA5 - MA20) / MA20
\* at the bar 5 bars before the latest bar is smaller than the latest spread
\* and the latest spread exceeds 5%, else BULL; mirrored for STRONG_BEAR and
\* BEAR; WEAK_BULL, WEAK_BEAR, CONSOLIDATION as listed; trend_strength is the
\* fixed number of the label and does not enter the composite score.
C21_TrendLabel ==
    SpreadsDefined =>
        /\ returned.trend_status = TrendByRule(frame.rows, 5)
        /\ returned.trend_strength = StrengthOf[returned.trend_status]
        /\ _generate_signal(_weights, [returned EXCEPT !.trend_strength = 0]).signal_score
               = returned.signal_score

\* the volumes of the five bars before the latest bar, added up
PrecedingVolume(rows) ==
    LET n == Len(rows)
    IN  rows[n - 5].volume + rows[n - 4].volume + rows[n - 3].volume
            + rows[n - 2].volume + rows[n - 1].volume

\* the latest close is above the close before it
Rose(rows) == rows[Len(rows)].close > rows[Len(rows) - 1].close

\* C22: volume_ratio_5d is the latest volume divided by the mean volume of
\* the five bars before the latest bar; the label is HEAVY_VOLUME_UP or
\* HEAVY_VOLUME_DOWN when the ratio is at least 1.5, SHRINK_VOLUME_UP or
\* SHRINK_VOLUME_DOWN when it is at most 0.7, NORMAL otherwise, the UP
\* variant exactly when the latest close is above the previous close.
C22_VolumeRatioAndLabel ==
    Full =>
        LET rows == frame.rows
            ratio == returned.volume_ratio_5d
        IN  /\ PrecedingVolume(rows) > 0 =>
                  ratio = Frac(5 * rows[Len(rows)].volume, PrecedingVolume(rows))
            /\ returned.volume_status =
                  IF FracGe(ratio, Frac(15, 10))
                  THEN (IF Rose(rows) THEN "HEAVY_VOLUME_UP" ELSE "HEAVY_VOLUME_DOWN")
                  ELSE IF FracLe(ratio, Frac(7, 10))
                  THEN (IF Rose(rows) THEN "SHRINK_VOLUME_UP" ELSE "SHRINK_VOLUME_DOWN")
                  ELSE "NORMAL"

C22_Witness ==
    /\ Full
    /\ PrecedingVolume(frame.rows) > 0
    /\ returned.volume_status = "HEAVY_VOLUME_UP"
    /\ FracGt(returned.volume_ratio_5d, FracInt(1))
    /\ FracLt(returned.volume_ratio_5d, FracInt(3))

\* C29: when the mean volume of the five bars before the latest bar is zero,
\* volume_ratio_5d stays 0 and the volume label is SHRINK_VOLUME_UP if the
\* close rose and SHRINK_VOLUME_DOWN otherwise, whatever the volume of the
\* latest bar; with a close that did not rise the raw volume score is the
\* highest of the table, 12, and the label is never NORMAL.
C29_NoVolumeHistoryIsShrink ==
    (Full /\ PrecedingVolume(frame.rows) = 0) =>
        /\ returned.volume_ratio_5d = Zero
        /\ returned.volume_status =
              IF Rose(frame.rows) THEN "SHRINK_VOLUME_UP" ELSE "SHRINK_VOLUME_DOWN"
        /\ ~Rose(frame.rows) => VolumeSection(returned).raw = 12

C29_Witness ==
    /\ Full
    /\ PrecedingVolume(frame.rows) = 0
    /\ frame.rows[Len(frame.rows)].volume = 3000
    /\ returned.volume_status = "SHRINK_VOLUME_DOWN"

C29_WitnessRose ==
    /\ Full
    /\ PrecedingVolume(frame.rows) = 0
    /\ Rose(frame.rows)
    /\ returned.volume_status = "SHRINK_VOLUME_UP"

BearGrades == {"STRONG_BEAR", "BEAR", "WEAK_BEAR"}

\* C26: the trend labels partition the triples (MA5, MA10, MA20) of defined
\* numbers: the label is CONSOLIDATION exactly when MA5 = MA10, a bull grade
\* whenever MA5 > MA10 and a bear grade whenever MA5 < MA10, however close
\* the two averages are.
C26_ConsolidationIffEqual ==
    Full =>
        /\ returned.trend_status = "CONSOLIDATION" <=> returned.ma5 = returned.ma10
        /\ FracGt(returned.ma5, returned.ma10) <=> returned.trend_status \in BullGrades
        /\ FracLt(returned.ma5, returned.ma10) <=> returned.trend_status \in BearGrades

\* averages less than a hundredth of the price apart
C26_Witness ==
    /\ Full
    /\ FracGt(returned.ma5, returned.ma10)
    /\ FracLt(FracMul(FracInt(100), FracSub(returned.ma5, returned.ma10)), returned.ma10)
    /\ returned.trend_status = "BULL"

\* the mixed orders of the averages
C26_WitnessWeak ==
    /\ Full
    /\ returned.trend_status \in {"WEAK_BULL", "WEAK_BEAR"}

\* C27: with the default weights every analysis of at least 20 bars has a
\* signal_score of at least 4, the raw bias score being at least 3 and the
\* raw Bollinger score at least 1; a signal_score of 0 is the score of the
\* insufficient-data result only.
C27_FullScoreAtLeastFour ==
    (returned # None /\ _weights = DEFAULT_WEIGHTS) =>
        /\ Full =>
              /\ BiasSection(returned).raw >= 3
              /\ BollSection(returned).raw >= 1
              /\ returned.signal_score >= 4
        /\ returned.signal_score = 0 => Insufficient(frame)

C27_Witness ==
    /\ Full
    /\ _weights = DEFAULT_WEIGHTS
    /\ BiasSection(returned).raw = 3
    /\ BollSection(returned).raw = 1
    /\ returned.signal_score < 45

\* C28: for a series of at least 20 bars with positive prices the Bollinger
\* label is never NORMAL, which a result carries only as the default the
\* classifier did not touch; a flat series, whose band has no width, is
\* labelled UPPER_BREAK.
C28_BollNeverNormal ==
    returned # None =>
        /\ Full =>
              /\ returned.boll_status # "NORMAL"
              /\ returned.boll_upper = returned.boll_lower =>
                    returned.boll_status = "UPPER_BREAK"
        /\ returned.boll_status = "NORMAL" => Insufficient(frame)

C28_Witness ==
    /\ Full
    /\ returned.boll_upper = returned.boll_lower
    /\ returned.boll_upper = SurdOfFrac(returned.current_price)
    /\ returned.boll_status = "UPPER_BREAK"

\* DIF crosses DEA upwards (direction 1) or downwards (-1) on the last bar n
MacdCross(macd, n, direction) ==
    LET gap == RatCmp(macd.MACD_DIF[n], macd.MACD_DEA[n])
        prev_gap == RatCmp(macd.MACD_DIF[n - 1], macd.MACD_DEA[n - 1])
    IN  prev_gap * direction <= 0 /\ gap * direction > 0

\* C30: the MACD cross labels are tied to the sign of the latest DIF:
\* CROSSING_UP is returned only when the latest bar has no golden cross,
\* GOLDEN_CROSS only when the latest DIF <= 0, GOLDEN_CROSS_ZERO only when
\* the latest DIF > 0, and CROSSING_DOWN only when the latest bar has no
\* death cross.
C30_CrossLabelsAndDifSign ==
    MacdAnalysed =>
        LET status == returned.macd_status
            dif == RatSign(returned.macd_dif)
        IN  /\ status = "GOLDEN_CROSS" => dif <= 0
            /\ status = "GOLDEN_CROSS_ZERO" => dif > 0
            /\ status = "CROSSING_UP" =>
                  ~MacdCross(_calculate_macd(frame.rows), Len(frame.rows), 1)
            /\ status = "CROSSING_DOWN" =>
                  ~MacdCross(_calculate_macd(frame.rows), Len(frame.rows), -1)

C30_Witness ==
    /\ MacdAnalysed
    /\ returned.macd_status = "CROSSING_UP"
    /\ RatCmp(returned.macd_dif, returned.macd_dea) > 0
    /\ ~MacdCross(_calculate_macd(frame.rows), Len(frame.rows), 1)

(***************************************************************************)
(* push_reports_to_feishu.py / simple_push_feishu.py: send_feishu_chunked. *)
(* A text is the sequence of its code points; a code point is a string.    *)
(***************************************************************************)
LF == "LF"

\* the code points of the texts that take three bytes in UTF-8
CJK == {"U+80A1", "U+7B2C", "U+90E8", "U+5206"}

\* len(ch.encode('utf-8'))
Utf8Width(ch) == IF ch \in CJK THEN 3 ELSE 1

\* len(s.encode('utf-8'))
RECURSIVE Utf8Len(_)
Utf8Len(s) == IF s = <<>> THEN 0 ELSE Utf8Width(Head(s)) + Utf8Len(Tail(s))

\* content.split('\n\n') from code point i on, current the piece being read:
\* the separators are found from the left and do not overlap
RECURSIVE split(_, _, _)
split(s, i, current) ==
    IF i > Len(s) THEN <<current>>
    ELSE IF i < Len(s) /\ s[i] = LF /\ s[i + 1] = LF
    THEN <<current>> \o split(s, i + 2, <<>>)
    ELSE split(s, i + 1, Append(current, s[i]))

\* the loop over the paragraphs from paragraph k on, and the chunk left over
RECURSIVE Pack(_, _, _, _, _, _)
Pack(paragraphs, k, chunks, current_chunk, current_bytes, max_bytes) ==
    IF k > Len(paragraphs)
    THEN (IF current_chunk # <<>> THEN Append(chunks, current_chunk) ELSE chunks)
    ELSE LET para == paragraphs[k]
             para_bytes == Utf8Len(para)
         IN  IF current_bytes + para_bytes > max_bytes /\ current_chunk # <<>>
             THEN Pack(paragraphs, k + 1, Append(chunks, current_chunk),
                       para, para_bytes, max_bytes)
             ELSE Pack(paragraphs, k + 1, chunks,
                       (IF current_chunk # <<>>
                        THEN current_chunk \o <<LF, LF>> \o para
                        ELSE para),
                       current_bytes + para_bytes, max_bytes)

\* the chunks of a content that does not fit
Chunks(content, max_bytes) ==
    Pack(split(content, 1, <<>>), 1, <<>>, <<>>, 0, max_bytes)

Digits == <<"0", "1", "2", "3", "4", "5", "6", "7", "8", "9">>

\* str(n) of a natural number
RECURSIVE str(_)
str(n) ==
    IF n < 10 THEN <<Digits[n + 1]>>
    ELSE str(n \div 10) \o <<Digits[(n % 10) + 1]>>

\* the chunk with its part marker; part counts from 1 (i + 1 in the code)
chunk_with_marker(chunk, part, total) ==
    chunk \o <<LF, LF, "-", "-", "-", LF, "*", "U+7B2C", " ">> \o str(part)
          \o <<"/">> \o str(total) \o <<" ", "U+90E8", "U+5206", "*">>

\* the loop gives up at the first chunk that is not delivered
SendsUntilFailure(chunks, results) ==
    LET failed == {i \in 1..Len(chunks) : ~results[i]}
        last == IF failed = {} THEN Len(chunks)
                ELSE CHOOSE i \in failed : \A j \in failed : i <= j
    IN  [i \in 1..last |->
            [message |-> chunk_with_marker(chunks[i], i, Len(chunks)),
             ok |-> results[i]]]

\* the loop over the chunks: the calls of send_feishu_message, results[i]
\* what the i-th call returns
Sends(chunks, results) ==
    [i \in 1..Len(chunks) |->
        [message |-> chunk_with_marker(chunks[i], i, Len(chunks)),
         ok |-> results[i]]]

\* success_count after the loop
success_count(results) == Cardinality({i \in DOMAIN results : results[i]})

MaxLen == 7

MaxLimit == 4

\* the code points the contents are written in
Alphabet == {"a", LF, "U+80A1"}

InitPush ==
    /\ given \in {[content |-> <<>>, max_bytes |-> m] : m \in 1..MaxLimit}
    /\ _weights = None
    /\ frame = None
    /\ returned = None
    /\ appended = 0
    /\ calls = <<>>
    /\ heap = <<>>

\* the caller writes the report that is to be sent
Write(ch) ==
    /\ returned = None
    /\ Len(given.content) < MaxLen
    /\ given' = [given EXCEPT !.content = Append(@, ch)]
    /\ UNCHANGED <<_weights, frame, returned, appended, calls, heap>>

\* send_feishu_chunked(content, max_bytes): calls becomes the calls of
\* send_feishu_message in order, each with what it returned; returned holds
\* the result of the function
send_feishu_chunked ==
    /\ returned = None
    /\ LET content == given.content
           max_bytes == given.max_bytes
           chunks == Chunks(content, max_bytes)
       IN  IF Utf8Len(content) <= max_bytes
           THEN \E ok \in BOOLEAN :
                   /\ calls' = <<[message |-> content, ok |-> ok]>>
                   /\ returned' = [result |-> ok]
           ELSE \E results \in [1..Len(chunks) -> BOOLEAN] :
                   /\ calls' = Sends(chunks, results)
                   /\ returned' = [result |-> success_count(results) = Len(chunks)]
    /\ UNCHANGED <<given, _weights, frame, appended, heap>>

NextPush ==
    \/ \E ch \in Alphabet : Write(ch)
    \/ send_feishu_chunked

SpecPush == InitPush /\ [][NextPush]_vars

(***************************************************************************)
(* Properties of the chunked delivery (SpecPush).                          *)
(***************************************************************************)
\* send_feishu_chunked has returned
Sent == returned # None

\* C23: for every content and every max_bytes, every message that
\* send_feishu_chunked passes to send_feishu_message, the chunk with its
\* part marker, is at most max_bytes long in UTF-8.
C23_EveryMessageWithinLimit ==
    Sent => \A i \in 1..Len(calls) : Utf8Len(calls[i].message) <= given.max_bytes

\* C24: when the content exceeds max_bytes every chunk is attempted exactly
\* once, in order, whatever the earlier sends returned, and the function
\* returns True exactly when every send returned True; when the content
\* fits there is exactly one send, of the content, and its result is
\* returned.
C24_EveryChunkOnceInOrder ==
    Sent =>
        LET chunks == Chunks(given.content, given.max_bytes)
        IN  IF Utf8Len(given.content) <= given.max_bytes
            THEN /\ Len(calls) = 1
                 /\ calls[1].message = given.content
                 /\ returned.result = calls[1].ok
            ELSE /\ Len(calls) = Len(chunks)
                 /\ \A i \in 1..Len(chunks) :
                        calls[i].message
                            = chunk_with_marker(chunks[i], i, Len(chunks))
                 /\ returned.result = (\A i \in 1..Len(calls) : calls[i].ok)

\* a send failed, the next chunks were sent all the same, and the function
\* returned False
C24_Witness ==
    /\ Sent
    /\ Utf8Len(given.content) > given.max_bytes
    /\ Len(calls) >= 3
    /\ ~calls[1].ok
    /\ calls[2].ok
    /\ calls[3].ok
    /\ ~returned.result

(***************************************************************************)
(* data_provider/etf_holdings.py: expand_etf_to_holdings.                  *)
(***************************************************************************)
\* Holding(code, name, weight, sector): the code is all the expansion reads
Holding(code) == [code |-> code]

\* ETFHoldingsManager.ETF_HOLDINGS_MAP
ETF_HOLDINGS_MAP ==
    ("159636" :> <<Holding("hk00700"), Holding("hk03690"), Holding("hk09988"),
                   Holding("hk01810"), Holding("hk00981"), Holding("hk01024"),
                   Holding("hk02015"), Holding("hk09961"), Holding("hk09618"),
                   Holding("hk01833")>>)
    @@ ("513180" :> <<Holding("hk00700"), Holding("hk09988"), Holding("hk03690"),
                      Holding("hk01024"), Holding("hk02015"), Holding("hk01810"),
                      Holding("hk00981"), Holding("hk09618"), Holding("hk09961"),
                      Holding("hk02359")>>)
    @@ ("513050" :> <<Holding("hk00700"), Holding("hk03690"), Holding("hk09988"),
                      Holding("hk01810"), Holding("hk09618"), Holding("hk00981"),
                      Holding("hk01024"), Holding("hk02015"), Holding("hk09961"),
                      Holding("hk02382")>>)
    @@ ("159742" :> <<Holding("hk00700"), Holding("hk09988"), Holding("hk03690"),
                      Holding("hk01024"), Holding("hk01810"), Holding("hk00981"),
                      Holding("hk09618"), Holding("hk02015"), Holding("hk09961"),
                      Holding("hk02359")>>)
    @@ ("513130" :> <<Holding("hk00700"), Holding("hk09988"), Holding("hk03690"),
                      Holding("hk01024"), Holding("hk02015"), Holding("hk01810"),
                      Holding("hk00981"), Holding("hk09618"), Holding("hk09961"),
                      Holding("hk02359")>>)

\* ETFHoldingsManager.is_supported_etf(etf_code)
is_supported_etf(etf_code) == etf_code \in DOMAIN ETF_HOLDINGS_MAP

\* holdings[:top_n]: a negative top_n counts from the end
SliceTo(holdings, top_n) ==
    IF top_n >= 0 THEN SubSeq(holdings, 1, MinOf(top_n, Len(holdings)))
    ELSE SubSeq(holdings, 1, MaxOf(Len(holdings) + top_n, 0))

\* ETFHoldingsManager.get_holdings(etf_code, top_n)
get_holdings(etf_code, top_n) ==
    LET holdings == IF etf_code \in DOMAIN ETF_HOLDINGS_MAP
                    THEN ETF_HOLDINGS_MAP[etf_code] ELSE <<>>
    IN  IF top_n \in Int THEN SliceTo(holdings, top_n) ELSE holdings

\* ETFHoldingsManager.get_holding_codes(etf_code, top_n)
get_holding_codes(etf_code, top_n) ==
    LET holdings == get_holdings(etf_code, top_n)
    IN  [i \in 1..Len(holdings) |-> holdings[i].code]

\* expanded_codes after the loop over stock_codes from position k on
RECURSIVE expanded_codes(_, _, _, _)
expanded_codes(stock_codes, k, top_n, include_etf) ==
    IF k > Len(stock_codes) THEN <<>>
    ELSE LET code == stock_codes[k]
             rest == expanded_codes(stock_codes, k + 1, top_n, include_etf)
         IN  IF ~is_supported_etf(code) THEN <<code>> \o rest
             ELSE (IF include_etf THEN <<code>> ELSE <<>>)
                      \o get_holding_codes(code, top_n) \o rest

\* etf_mapping after the loop: a key for every supported ETF met
etf_mapping(stock_codes, top_n) ==
    [code \in {stock_codes[k] : k \in {j \in 1..Len(stock_codes) :
                                          is_supported_etf(stock_codes[j])}}
        |-> get_holding_codes(code, top_n)]

\* the list returned as it was expanded
WithDuplicates(codes, k, seen) == SubSeq(codes, k, Len(codes))

\* unique_codes: the codes from position k on that are not in seen, each once
RECURSIVE unique_codes(_, _, _)
unique_codes(codes, k, seen) ==
    IF k > Len(codes) THEN <<>>
    ELSE IF codes[k] \notin seen
    THEN <<codes[k]>> \o unique_codes(codes, k + 1, seen \cup {codes[k]})
    ELSE unique_codes(codes, k + 1, seen)

\* expand_etf_to_holdings(stock_codes, top_n, include_etf)
expand_etf_to_holdings(stock_codes, top_n, include_etf) ==
    [codes |-> unique_codes(expanded_codes(stock_codes, 1, top_n, include_etf),
                            1, {}),
     mapping |-> etf_mapping(stock_codes, top_n)]

MaxCodes == 3

MaxTopN == 3

\* the codes the callers list: a stock, two funds and two of their holdings
Listable == {"600519", "159636", "513180", "hk00700", "hk09988"}

InitEtf ==
    /\ given \in {[stock_codes |-> <<>>, top_n |-> n, include_etf |-> b] :
                     n \in 0..MaxTopN, b \in BOOLEAN}
    /\ _weights = None
    /\ frame = None
    /\ returned = None
    /\ appended = 0
    /\ calls = <<>>
    /\ heap = <<>>

\* the caller lists one more code
Listed(code) ==
    /\ returned = None
    /\ Len(given.stock_codes) < MaxCodes
    /\ given' = [given EXCEPT !.stock_codes = Append(@, code)]
    /\ UNCHANGED <<_weights, frame, returned, appended, calls, heap>>

\* expanded, mapping = expand_etf_to_holdings(stock_codes, top_n, include_etf)
Expand ==
    /\ returned = None
    /\ returned' = expand_etf_to_holdings(given.stock_codes, given.top_n,
                                          given.include_etf)
    /\ UNCHANGED <<given, _weights, frame, appended, calls, heap>>

NextEtf ==
    \/ \E code \in Listable : Listed(code)
    \/ Expand

SpecEtf == InitEtf /\ [][NextEtf]_vars

(***************************************************************************)
(* Properties of the expansion (SpecEtf).                                  *)
(***************************************************************************)
\* the first n items of a list
FirstN(items, n) == [i \in 1..MinOf(n, Len(items)) |-> items[i]]

\* the sequence with every supported ETF replaced by itself (if kept) and
\* its first top_n holding codes
RECURSIVE Replaced(_, _, _)
Replaced(stock_codes, top_n, include_etf) ==
    IF stock_codes = <<>> THEN <<>>
    ELSE LET code == Head(stock_codes)
             all == [i \in 1..Len(ETF_HOLDINGS_MAP[code]) |->
                        ETF_HOLDINGS_MAP[code][i].code]
         IN  (IF code \notin DOMAIN ETF_HOLDINGS_MAP THEN <<code>>
              ELSE (IF include_etf THEN <<code>> ELSE <<>>) \o FirstN(all, top_n))
             \o Replaced(Tail(stock_codes), top_n, include_etf)

\* the position where x first occurs in a list
FirstAt(items, x) ==
    CHOOSE i \in 1..Len(items) :
        items[i] = x /\ \A j \in 1..(i - 1) : items[j] # x

Expanded == returned # None

\* C25: expand_etf_to_holdings returns a list without duplicates that keeps
\* the order of first occurrence of the sequence in which every supported
\* ETF is replaced by itself (iff include_etf) followed by its first top_n
\* holding codes and every other code stays in its place; the mapping has
\* exactly one key for every supported ETF of the input, mapped to its first
\* top_n holding codes; with include_etf the function applied to the list it
\* returned returns that list.
C25_ExpansionIsOrderedUniqueIdempotent ==
    Expanded =>
        LET codes == returned.codes
            sequence == Replaced(given.stock_codes, given.top_n,
                                 given.include_etf)
        IN  /\ \A i, j \in 1..Len(codes) : codes[i] = codes[j] => i = j
            /\ {codes[i] : i \in 1..Len(codes)}
                   = {sequence[i] : i \in 1..Len(sequence)}
            /\ \A i, j \in 1..Len(codes) :
                   i < j => FirstAt(sequence, codes[i]) < FirstAt(sequence, codes[j])
            /\ DOMAIN returned.mapping
                   = {c \in {given.stock_codes[i] : i \in 1..Len(given.stock_codes)} :
                         c \in DOMAIN ETF_HOLDINGS_MAP}
            /\ \A c \in DOMAIN returned.mapping :
                   returned.mapping[c]
                       = FirstN([i \in 1..Len(ETF_HOLDINGS_MAP[c]) |->
                                    ETF_HOLDINGS_MAP[c][i].code], given.top_n)
            /\ given.include_etf =>
                   expand_etf_to_holdings(codes, given.top_n, TRUE).codes = codes

\* two funds with a holding in common were expanded behind one of their
\* holdings, and the funds were kept
C25_Witness ==
    /\ Expanded
    /\ given.include_etf
    /\ given.top_n >= 2
    /\ given.stock_codes = <<"hk09988", "159636", "513180">>
    /\ returned.codes = <<"hk09988", "159636", "hk00700", "hk03690", "513180">>

====
